---- MODULE Spec2Model ----
(***************************************************************************)
(* chessEval: the scan post-processing pipeline (server handler, client    *)
(* orientation detection, position loading) and the board controls.        *)
(*                                                                         *)
(* Position strings are TLA+ strings; a character is a string of length 1. *)
(* JavaScript indexes from 0, TLA+ from 1: jsCharAt and findIndex keep the *)
(* JavaScript indexes.                                                     *)
(***************************************************************************)
EXTENDS Integers, Sequences, FiniteSets, TLC

(***************************************************************************)
(* JavaScript string primitives used by the source                         *)
(***************************************************************************)

\* the value of a variable that holds nothing yet
none == "none"

\* the value of an out-of-range index s[i] or of a missing array element
undefined == "undefined"

\* s[i] with a 0-based index
jsCharAt(s, i) ==
    IF s # undefined /\ i >= 0 /\ i < Len(s) THEN SubSeq(s, i + 1, i + 1) ELSE undefined

\* arr[i] with a 0-based index
jsElemAt(arr, i) ==
    IF i >= 0 /\ i < Len(arr) THEN arr[i + 1] ELSE undefined

RECURSIVE split(_, _)
\* s.split(sep) for a one-character separator: the part before the first
\* separator, then the parts of the rest
split(s, sep) ==
    LET idx == {i \in 1..Len(s) : SubSeq(s, i, i) = sep}
    IN  IF idx = {} THEN <<s>>
        ELSE LET m == CHOOSE i \in idx : \A j \in idx : i <= j
             IN  <<SubSeq(s, 1, m - 1)>> \o split(SubSeq(s, m + 1, Len(s)), sep)

RECURSIVE join(_, _)
\* arr.join(sep)
join(arr, sep) ==
    IF Len(arr) = 0 THEN ""
    ELSE IF Len(arr) = 1 THEN arr[1]
    ELSE arr[1] \o sep \o join(Tail(arr), sep)

\* arr.slice(from) and arr.slice(from, to) with 0-based bounds
slice(arr, from, to) ==
    LET hi == IF to < Len(arr) THEN to ELSE Len(arr)
    IN  IF from >= hi THEN <<>> ELSE SubSeq(arr, from + 1, hi)

\* s.includes(c) for a one-character c
includes(s, c) == \E i \in 1..Len(s) : SubSeq(s, i, i) = c

RECURSIVE findIndexFrom(_, _, _)
findIndexFrom(rows, c, i) ==
    IF i >= Len(rows) THEN -1
    ELSE IF includes(rows[i + 1], c) THEN i
    ELSE findIndexFrom(rows, c, i + 1)

\* findIndex counting the rows from one
findIndexOneBased(rows, c) == findIndexFrom(rows, c, 0) + 1

\* rows.findIndex(r => r.includes(c))
findIndex(rows, c) == findIndexFrom(rows, c, 0)

Digits == {"0", "1", "2", "3", "4", "5", "6", "7", "8", "9"}

UpperCase == {"A", "B", "C", "D", "E", "F", "G", "H", "I", "J", "K", "L", "M",
              "N", "O", "P", "Q", "R", "S", "T", "U", "V", "W", "X", "Y", "Z"}

LowerCase == {"a", "b", "c", "d", "e", "f", "g", "h", "i", "j", "k", "l", "m",
              "n", "o", "p", "q", "r", "s", "t", "u", "v", "w", "x", "y", "z"}

\* parseInt(d, 10) of one digit
parseInt(d) ==
    CASE d = "0" -> 0 [] d = "1" -> 1 [] d = "2" -> 2 [] d = "3" -> 3
      [] d = "4" -> 4 [] d = "5" -> 5 [] d = "6" -> 6 [] d = "7" -> 7
      [] d = "8" -> 8 [] d = "9" -> 9

RECURSIVE repeat(_, _)
\* c.repeat(n)
repeat(c, n) == IF n <= 0 THEN "" ELSE c \o repeat(c, n - 1)

\* (s.match(re) || []).length for the character class given as a set
count(s, class) == Cardinality({i \in 1..Len(s) : SubSeq(s, i, i) \in class})

RECURSIVE reverseStr(_)
reverseStr(s) ==
    IF s = "" THEN "" ELSE reverseStr(SubSeq(s, 2, Len(s))) \o SubSeq(s, 1, 1)

(***************************************************************************)
(* Server handler: completion and castling inference                       *)
(***************************************************************************)

DefaultSuffix == " w - - 0 1"

\* handlerCompletion with the comparison off by one: <= 6
handlerCompletionOffByOne(fen) ==
    IF Len(split(fen, " ")) <= 6 THEN fen \o DefaultSuffix ELSE fen

\* if (fen.split(' ').length < 6) fen += ' w - - 0 1'
handlerCompletion(fen) ==
    IF Len(split(fen, " ")) < 6 THEN fen \o DefaultSuffix ELSE fen

\* expand that leaves the digits as they are
expandKeepDigits(s) == s

RECURSIVE expand(_)
\* s.replace(/\d/g, d => '1'.repeat(parseInt(d, 10)))
expand(s) ==
    IF s = "" THEN ""
    ELSE LET c == SubSeq(s, 1, 1)
         IN  (IF c \in Digits THEN repeat("1", parseInt(c)) ELSE c)
                 \o expand(SubSeq(s, 2, Len(s)))

\* castlingOf with the two back ranks taken for each other
castlingOfSwappedRanks(r1, r8) ==
    LET wK == IF jsCharAt(r8, 4) = "K" /\ jsCharAt(r8, 7) = "R" THEN "K" ELSE ""
        wQ == IF jsCharAt(r8, 4) = "K" /\ jsCharAt(r8, 0) = "R" THEN "Q" ELSE ""
        bk == IF jsCharAt(r1, 4) = "k" /\ jsCharAt(r1, 7) = "r" THEN "k" ELSE ""
        bq == IF jsCharAt(r1, 4) = "k" /\ jsCharAt(r1, 0) = "r" THEN "q" ELSE ""
    IN  wK \o wQ \o bk \o bq

\* the rights string built from the two expanded back ranks
castlingOf(r1, r8) ==
    LET wK == IF jsCharAt(r1, 4) = "K" /\ jsCharAt(r1, 7) = "R" THEN "K" ELSE ""
        wQ == IF jsCharAt(r1, 4) = "K" /\ jsCharAt(r1, 0) = "R" THEN "Q" ELSE ""
        bk == IF jsCharAt(r8, 4) = "k" /\ jsCharAt(r8, 7) = "r" THEN "k" ELSE ""
        bq == IF jsCharAt(r8, 4) = "k" /\ jsCharAt(r8, 0) = "r" THEN "q" ELSE ""
    IN  wK \o wQ \o bk \o bq

\* castlingField without the fallback to '-'
castlingFieldRaw(castling) == castling

\* castling || '-'
castlingField(castling) == IF castling = "" THEN "-" ELSE castling

\* postProcess with the castling field written before the completion: the
\* castling stage is given the raw string, and fenParts[2] = x on an array of
\* fewer than 3 elements lengthens it (a hole joins as the empty string)
postProcessCastlingFirst(rawFen) ==
    LET fenParts == split(rawFen, " ")
        ranks    == split(fenParts[1], "/")
        rank8    == jsElemAt(ranks, 0)
        rank1    == jsElemAt(ranks, 7)
    IN  IF rank8 = undefined \/ rank1 = undefined
        THEN [statusCode |-> 500, fen |-> none, completed |-> rawFen]
        ELSE LET castling == castlingField(castlingOf(expand(rank1), expand(rank8)))
                 newParts == IF Len(fenParts) >= 3 THEN [fenParts EXCEPT ![3] = castling]
                             ELSE IF Len(fenParts) = 2 THEN fenParts \o <<castling>>
                             ELSE fenParts \o <<"", castling>>
             IN  [statusCode |-> 200, fen |-> handlerCompletion(join(newParts, " ")),
                  completed |-> rawFen]

\* The handler from the recognizer's fen to the response.  expand(undefined)
\* throws a TypeError, which the catch block turns into status 500.
postProcess(rawFen) ==
    LET fen      == handlerCompletion(rawFen)
        fenParts == split(fen, " ")
        ranks    == split(fenParts[1], "/")
        rank8    == jsElemAt(ranks, 0)
        rank1    == jsElemAt(ranks, 7)
    IN  IF rank8 = undefined \/ rank1 = undefined
        THEN [statusCode |-> 500, fen |-> none, completed |-> fen]
        ELSE LET castling == castlingOf(expand(rank1), expand(rank8))
                 newParts == [fenParts EXCEPT ![3] = castlingField(castling)]
             IN  [statusCode |-> 200, fen |-> join(newParts, " "), completed |-> fen]

(***************************************************************************)
(* Rotation Transform (src/utils/fen.js is not part of the sources; the    *)
(* transform is taken from the design: reverse the order of the rows and   *)
(* the squares inside each row, every other field left as it is)           *)
(***************************************************************************)

RECURSIVE reverseRowsUncompressed(_)
\* reverseRows on the expanded rows, the runs of empty squares not written back as digits
reverseRowsUncompressed(rows) ==
    IF Len(rows) = 0 THEN <<>>
    ELSE <<reverseStr(expand(rows[Len(rows)]))>>
             \o reverseRowsUncompressed(SubSeq(rows, 1, Len(rows) - 1))

RECURSIVE reverseRows(_)
reverseRows(rows) ==
    IF Len(rows) = 0 THEN <<>>
    ELSE <<reverseStr(rows[Len(rows)])>> \o reverseRows(SubSeq(rows, 1, Len(rows) - 1))

\* rotateFen that reverses the order of the rows and leaves each row as it is
rotateFenRowOrderOnly(fen) ==
    LET parts == split(fen, " ")
        rows  == split(parts[1], "/")
        turned == [i \in 1..Len(rows) |-> rows[Len(rows) + 1 - i]]
    IN  join([parts EXCEPT ![1] = join(turned, "/")], " ")

rotateFen(fen) ==
    LET parts == split(fen, " ")
        rows  == split(parts[1], "/")
    IN  join([parts EXCEPT ![1] = join(reverseRows(rows), "/")], " ")

(***************************************************************************)
(* Client: orientation detection                                           *)
(***************************************************************************)

\* score > 1.5 on the doubled score, which keeps the arithmetic in integers
ScoreThresholdTimes2 == 3

\* the fraction bound 0.65 in percent
MajorityPercent == 65

\* kingScoreTimes2 with the two kings taken for each other
kingScoreKingsSwapped(whiteKingRow, blackKingRow) ==
    (IF blackKingRow # -1 THEN 7 - 2 * blackKingRow ELSE 0)
  + (IF whiteKingRow # -1 THEN 2 * whiteKingRow - 7 ELSE 0)

\* twice the king score: (3.5 - whiteKingRow) + (blackKingRow - 3.5)
kingScoreTimes2(whiteKingRow, blackKingRow) ==
    (IF whiteKingRow # -1 THEN 7 - 2 * whiteKingRow ELSE 0)
  + (IF blackKingRow # -1 THEN 2 * blackKingRow - 7 ELSE 0)

\* kingFlipped with score >= 1.5
kingFlippedAtLeast(whiteKingRow, blackKingRow) ==
    kingScoreTimes2(whiteKingRow, blackKingRow) >= ScoreThresholdTimes2

kingFlipped(whiteKingRow, blackKingRow) ==
    kingScoreTimes2(whiteKingRow, blackKingRow) > ScoreThresholdTimes2

\* aboveMajority with >= 0.65
aboveMajorityAtLeast(part, total) ==
    100 * part >= MajorityPercent * (IF total = 0 THEN 1 ELSE total)

\* (part / (total || 1)) > 0.65, cross-multiplied
aboveMajority(part, total) ==
    100 * part > MajorityPercent * (IF total = 0 THEN 1 ELSE total)

\* fallbackFlipped with one bar being enough
fallbackFlippedEither(rows) ==
    LET top    == join(slice(rows, 0, 4), "")
        bottom == join(slice(rows, 4, Len(rows)), "")
        wTop   == count(top, UpperCase)
        bTop   == count(top, LowerCase)
        wBot   == count(bottom, UpperCase)
        bBot   == count(bottom, LowerCase)
    IN  aboveMajority(wTop, wTop + bTop) \/ aboveMajority(bBot, wBot + bBot)

fallbackFlipped(rows) ==
    LET top    == join(slice(rows, 0, 4), "")
        bottom == join(slice(rows, 4, Len(rows)), "")
        wTop   == count(top, UpperCase)
        bTop   == count(top, LowerCase)
        wBot   == count(bottom, UpperCase)
        bBot   == count(bottom, LowerCase)
    IN  aboveMajority(wTop, wTop + bTop) /\ aboveMajority(bBot, wBot + bBot)

detectOrientation(fen) ==
    LET rows         == split(split(fen, " ")[1], "/")
        whiteKingRow == findIndex(rows, "K")
        blackKingRow == findIndex(rows, "k")
        useKings     == whiteKingRow # -1 \/ blackKingRow # -1
        isFlipped    == IF useKings THEN kingFlipped(whiteKingRow, blackKingRow)
                        ELSE fallbackFlipped(rows)
    IN  [isFlipped |-> isFlipped,
         tier      |-> IF useKings THEN "kings" ELSE "fallback",
         fen       |-> IF isFlipped THEN rotateFen(fen) ELSE fen]

\* the decision of the handler variant that corrects the orientation itself:
\* whiteTop > blackTop && blackBottom > whiteBottom
heuristicFlipped(fen) ==
    LET rows        == split(split(fen, " ")[1], "/")
        topHalf     == join(slice(rows, 0, 4), "")
        bottomHalf  == join(slice(rows, 4, Len(rows)), "")
        whiteTop    == count(topHalf, UpperCase)
        blackTop    == count(topHalf, LowerCase)
        whiteBottom == count(bottomHalf, UpperCase)
        blackBottom == count(bottomHalf, LowerCase)
    IN  whiteTop > blackTop /\ blackBottom > whiteBottom

(***************************************************************************)
(* Rules engine (chess.js, an external collaborator): the position is kept *)
(* as a grid and read back as a canonical position string.  Only the       *)
(* structural checks of the position string are modelled.                  *)
(***************************************************************************)

PieceLetters == {"p", "n", "b", "r", "q", "k", "P", "N", "B", "R", "Q", "K"}

allIn(s, class) == \A i \in 1..Len(s) : SubSeq(s, i, i) \in class

noDigitPair(s) ==
    \A i \in 1..(Len(s) - 1) : ~(SubSeq(s, i, i) \in Digits /\ SubSeq(s, i + 1, i + 1) \in Digits)

validRow(row) ==
    /\ allIn(row, PieceLetters \cup (Digits \ {"0", "9"}))
    /\ noDigitPair(row)
    /\ Len(expand(row)) = 8

validPlacement(placement) ==
    LET rows == split(placement, "/")
    IN  Len(rows) = 8 /\ \A i \in 1..8 : validRow(rows[i])

validateFen(fen) ==
    LET tokens == split(fen, " ")
    IN  /\ Len(tokens) = 6
        /\ tokens[6] # "" /\ allIn(tokens[6], Digits) /\ tokens[6] # "0"
        /\ tokens[5] # "" /\ allIn(tokens[5], Digits)
        /\ tokens[4] = "-"
             \/ (Len(tokens[4]) = 2
                 /\ SubSeq(tokens[4], 1, 1) \in {"a", "b", "c", "d", "e", "f", "g", "h"}
                 /\ SubSeq(tokens[4], 2, 2) \in {"3", "6"})
        /\ tokens[3] # "" /\ allIn(tokens[3], {"K", "Q", "k", "q", "-"})
        /\ tokens[2] \in {"w", "b"}
        /\ validPlacement(tokens[1])

\* the castling flags as chess.js prints them back
castlingFlags(field) ==
    LET s == (IF includes(field, "K") THEN "K" ELSE "")
          \o (IF includes(field, "Q") THEN "Q" ELSE "")
          \o (IF includes(field, "k") THEN "k" ELSE "")
          \o (IF includes(field, "q") THEN "q" ELSE "")
    IN  IF s = "" THEN "-" ELSE s

\* chess.load(fen) of a string that validateFen accepts
chessLoad(fen) ==
    LET tokens == split(fen, " ")
        rows   == split(tokens[1], "/")
    IN  [board    |-> [i \in 1..8 |-> expand(rows[i])],
         turn     |-> tokens[2],
         castling |-> castlingFlags(tokens[3]),
         ep       |-> tokens[4],
         half     |-> tokens[5],
         full     |-> tokens[6]]

RECURSIVE compressFrom(_, _)
\* a grid row back to notation: each run of n empty squares becomes the digit n
compressFrom(row, run) ==
    LET flush == IF run = 0 THEN "" ELSE ToString(run)
    IN  IF row = "" THEN flush
        ELSE IF SubSeq(row, 1, 1) = "1" THEN compressFrom(SubSeq(row, 2, Len(row)), run + 1)
        ELSE flush \o SubSeq(row, 1, 1) \o compressFrom(SubSeq(row, 2, Len(row)), 0)

\* chess.fen()
chessFen(c) ==
    join(<<join([i \in 1..8 |-> compressFrom(c.board[i], 0)], "/"),
           c.turn, c.castling, c.ep, c.half, c.full>>, " ")

DEFAULT_FEN == "rnbqkbnr/pppppppp/8/8/8/8/PPPPPPPP/RNBQKBNR w KQkq - 0 1"

\* if (fen.split(' ').length < 6) fen += ' w - - 0 1'
loadCompletion(fen) ==
    IF Len(split(fen, " ")) < 6 THEN fen \o DefaultSuffix ELSE fen

(***************************************************************************)
(* Inputs: what the recognizer can reply                                   *)
(***************************************************************************)

MaxOps == 2     \* board-control presses in one behaviour
MaxSteps == 3   \* board operations in one behaviour: presses, moves, undos, redos, engine results

EmptyRow == "8"

\* rows 1..6 empty between the two given back rows
betweenEmpty(top, bottom) ==
    join(<<top, EmptyRow, EmptyRow, EmptyRow, EmptyRow, EmptyRow, EmptyRow, bottom>>, "/")

BackRows == {"r3k2r", "R3K2R", "4k3", "r3k3", "4K2R", "R2K3R", "r3K2r", "8"}

\* one king of each colour at most, on any row (-1: that king is missing)
kingWalkRow(i, w, b) ==
    IF i = w /\ i = b THEN "2K2k2"
    ELSE IF i = w THEN "2K5"
    ELSE IF i = b THEN "5k2"
    ELSE EmptyRow

\* half boards without a king: 4 rows each
KinglessHalves ==
    {"8/8/8/8",                     \* no piece
     "PPPPPPPP/8/8/8",              \* white only
     "pppppppp/8/8/8",              \* black only
     "PPPPPPPP/PPPPPppp/pppp4/8",   \* 13 white of 20: exactly 65%
     "pppppppp/pppppPPP/PPPP4/8",   \* 13 black of 20: exactly 65%
     "PP6/p7/8/8",                  \* 2 white of 3
     "pp6/P7/8/8",                  \* 2 black of 3
     "PPPP4/pppp4/8/8"}             \* half and half

FullBoards ==
    {"rnbqkbnr/pppppppp/8/8/8/8/PPPPPPPP/RNBQKBNR",    \* the start position
     "RNBKQBNR/PPPPPPPP/8/8/8/8/pppppppp/rnbkqbnr",    \* the same seen from Black's side
     "R2K3R/8/8/8/8/8/8/r2k3r",                        \* r3k2r/.../R3K2R from Black's side
     "8/8/8/8/8/2k5/2P5/2K5",
     "4K2R/8/8/8/8/8/8/4K2R"}                          \* two white kings

\* placements the rest of the pipeline cannot parse
MalformedPlacements ==
    {"8",                                   \* one row
     "r3k2r/8/8/8/8/8/R3K2R",               \* 7 rows
     "r3k2r/8/8/8/8/8/8/8/R3K2R",           \* 9 rows
     "r3k2r/8/8/8/8/8/8/R3X2R",             \* an invalid letter
     "r3k2r/8/8/8/8/8/8/R3K2R1",            \* a row of 9 squares
     "r3k2r/8/8/8/8/8/8/",                  \* an empty last row
     "r3k2r/8/8/8/8/8/8/44",                \* consecutive digits
     "r3k2r/8/8/8/8/8/8/R3K"}               \* a row of 5 squares

\* the boards of two back rows, the boards of the kings alone on any two
\* rows, the kingless boards of two halves, the full and the malformed ones
Placements ==
    {betweenEmpty(t, b) : t \in BackRows, b \in BackRows}
        \cup {join([i \in 1..8 |-> kingWalkRow(i - 1, w, b)], "/") : w \in -1..7, b \in -1..7}
        \cup {t \o "/" \o b : t \in KinglessHalves, b \in KinglessHalves}
        \cup FullBoards \cup MalformedPlacements

\* every placement comes alone and with all its fields; the full boards and
\* the malformed placements come with every suffix: no field, 1 to 5 of
\* them, or one too many
RawFens ==
    {p \o sfx : p \in Placements, sfx \in {"", " w KQkq - 0 1"}}
        \cup {p \o sfx : p \in FullBoards \cup MalformedPlacements,
                         sfx \in {"", " b", " w KQkq", " b - -", " w Kq - 0", " w KQkq - 0 1",
                                  " b - - 3 7", " w - - 0 1 x"}}

(***************************************************************************)
(* State                                                                   *)
(***************************************************************************)

VARIABLES
    pc,                \* where the one upload of this behaviour is
    caller,            \* who sent the request: "app" or "other"
    req,               \* the request received by the handler
    resp,              \* the handler's response
    srvRaw,            \* handler: result.results[0].fen
    srvCompleted,      \* handler: fen after the completion line
    apiFen,            \* client: data.fen
    isFlipped,         \* client: detectOrientation's decision
    tier,              \* client: which signal decided
    orientedFen,       \* client: detectOrientation's result
    loadArg,           \* loadPosition: its argument
    loadFen,           \* loadPosition: fen handed to chess.load
    loadOk,            \* loadPosition: chess.load did not throw
    loadReport,        \* loadPosition: what its catch block reported
    chess,             \* this.chess
    chessHistory,      \* chess.js: the positions chess.undo() goes back to
    moveHistory,       \* this.moveHistory
    currentMoveIndex,  \* this.currentMoveIndex
    board,             \* the board widget's fen and orientation
    engine,            \* this.engine is set
    analyses,          \* the positions engine.analyze was called for
    evalDisplay,       \* the evaluation display: its text, or the position its result is of
    currentArrows,     \* the position whose best moves are drawn as arrows
    steps,             \* the moves, undos, redos and engine results so far
    lastStep,          \* the latest of them
    statusMsg,         \* the status line
    opLog,             \* the position changes so far: the operation and chess.fen() before it
    file,              \* compressImage: the File, its byte size and the size of its picture
    maxWidth,          \* compressImage: the maxWidth argument
    cpc,               \* compressImage: how far the promise has come
    compressed,        \* compressImage: what the promise resolved with
    imageData,         \* applyRemoveBleeding: the ImageData read from the canvas
    filtered,          \* applyRemoveBleeding: the ImageData of each run, with the input it was given
    inv,               \* the handler invocations: request, form posted, recognizer response, result
    interleaved,       \* the invocations that went on after an await while another one was waiting
    arrowAnimationGeneration,  \* this.arrowAnimationGeneration
    arrowAnimationTimeout,     \* this.arrowAnimationTimeout: a timer handle, 0 for null
    shapes,            \* what board.setShapes was last given: how many arrows, drawn by which animation
    timers,            \* the timers set and neither run nor cleared
    handles,           \* the number of timers set so far
    stockfish,         \* worker: the engine instance is there
    messageQueue,      \* worker: messageQueue
    isReady,           \* worker: isReady
    received,          \* worker: the number of 'command' messages taken so far
    forwarded,         \* worker: what stockfish.postMessage was given, in order
    engineOwes,        \* engine: the 'uci' it has not answered yet
    lastPosted         \* worker: the latest message posted to the main thread

srvVars  == <<srvRaw, srvCompleted>>
cliVars  == <<apiFen, isFlipped, tier, orientedFen>>
loadVars == <<loadArg, loadFen, loadOk, loadReport>>
engineVars == <<engine, analyses, evalDisplay, currentArrows>>
stepVars == <<steps, lastStep>>
appVars  == <<chess, chessHistory, moveHistory, currentMoveIndex, board, engineVars, stepVars>>
vars == <<pc, caller, req, resp, srvRaw, srvCompleted, apiFen, isFlipped, tier,
          orientedFen, loadArg, loadFen, loadOk, loadReport, chess, chessHistory,
          moveHistory, currentMoveIndex, board, engine, analyses, evalDisplay,
          currentArrows, steps, lastStep, statusMsg, opLog>>

compressVars == <<file, maxWidth, cpc, compressed>>
filterVars   == <<imageData, filtered>>
invVars      == <<inv, interleaved>>

\* the variables of the image preparation and of the concurrent invocations
\* while the scan pipeline and the board controls are looked at
arrowVars    == <<arrowAnimationGeneration, arrowAnimationTimeout, shapes, timers, handles>>
workerVars   == <<stockfish, messageQueue, isReady, received, forwarded, engineOwes, lastPosted>>

offScan == <<compressVars, filterVars, invVars, arrowVars, workerVars>>

noImage == [width |-> 0, height |-> 0, data |-> <<>>]

notResolved == [encoding |-> none, width |-> 0, height |-> 0]

compressIdle == file = [size |-> 0, width |-> 0, height |-> 0] /\ maxWidth = 0 /\ cpc = "idle" /\ compressed = notResolved
filterIdle   == imageData = noImage /\ filtered = <<>>
invIdle      == inv = <<>> /\ interleaved = {}

noShapes == [n |-> 0, by |-> 0]


\* the evaluation display shows a text, or the result of a position
textShown(text) == [text |-> text, of |-> none]
resultShown(fen) == [text |-> none, of |-> fen]
noResponse == [statusCode |-> 0, fen |-> none]

\* the app after its constructor, but for the scan pipeline and the engine,
\* and the worker's module variables as declared
appInitial ==
    /\ apiFen = none
    /\ isFlipped = FALSE
    /\ tier = none
    /\ orientedFen = none
    /\ loadArg = none
    /\ loadFen = none
    /\ loadOk = FALSE
    /\ loadReport = none
    /\ chess = chessLoad(DEFAULT_FEN)
    /\ chessHistory = <<>>
    /\ moveHistory = <<>>
    /\ currentMoveIndex = -1
    /\ board = [fen |-> DEFAULT_FEN, orientation |-> "white"]
    /\ currentArrows = none
    /\ steps = 0
    /\ lastStep = [op |-> none]
    /\ statusMsg = ""
    /\ opLog = <<>>
    /\ arrowAnimationGeneration = 0
    /\ arrowAnimationTimeout = 0
    /\ shapes = noShapes
    /\ timers = {}
    /\ handles = 0
    /\ stockfish = FALSE
    /\ messageQueue = <<>>
    /\ isReady = FALSE
    /\ received = 0
    /\ forwarded = <<>>
    /\ engineOwes = 0
    /\ lastPosted = [type |-> none, data |-> none]

\* init() went through: the engine is there and analyses the start position
engineStarted ==
    /\ engine = TRUE
    /\ analyses = {DEFAULT_FEN}
    /\ evalDisplay = textShown("...")

\* the app after its constructor and init(), no scan under way
scanInitial ==
    /\ pc = "idle"
    /\ caller = none
    /\ req = [httpMethod |-> none, body |-> none]
    /\ resp = noResponse
    /\ srvRaw = none
    /\ srvCompleted = none
    /\ appInitial
    /\ engineStarted

Init == scanInitial /\ compressIdle /\ filterIdle /\ invIdle

(***************************************************************************)
(* Client: loadPosition and the board controls                             *)
(***************************************************************************)

\* chess.isGameOver(); on the positions looked at here the game is over
\* only when nothing but kings is left
isGameOver(c) == \A i \in 1..8 : allIn(c.board[i], {"1", "K", "k"})

\* runAnalysis() on the position given
runAnalysis(newChess) ==
    IF ~engine THEN UNCHANGED <<analyses, evalDisplay>>
    ELSE IF isGameOver(newChess)
    THEN /\ evalDisplay' = textShown("Game over")
         /\ UNCHANGED analyses
    ELSE /\ evalDisplay' = textShown("...")
         /\ analyses' = analyses \cup {chessFen(newChess)}

\* updateBoardState(orientation): what the widget shows after the position
\* changed, then clearArrows() and runAnalysis()
updateBoardState(newChess, orientation) ==
    /\ board' = [fen |-> chessFen(newChess),
                 orientation |-> IF orientation = none THEN board.orientation
                                 ELSE orientation]
    /\ currentArrows' = none
    /\ runAnalysis(newChess)
    /\ UNCHANGED engine

\* loadPosition that empties the history before it asks the rules engine
loadPositionResetFirst(fen, orientation) ==
    LET completed == loadCompletion(fen)
        ok        == validateFen(completed)
        loaded    == chessLoad(completed)
    IN  /\ loadArg' = fen
        /\ loadFen' = completed
        /\ loadOk' = ok
        /\ loadReport' = IF ok THEN none ELSE "Invalid FEN"
        /\ moveHistory' = <<>>
        /\ currentMoveIndex' = -1
        /\ IF ok
           THEN /\ chess' = loaded
                /\ chessHistory' = <<>>
                /\ updateBoardState(loaded, orientation)
           ELSE UNCHANGED <<chess, chessHistory, board, engineVars>>

\* loadPosition(fen, orientation); chess.load throws on a string it does not
\* accept and the catch block leaves the position and the history alone
loadPosition(fen, orientation) ==
    LET completed == loadCompletion(fen)
        ok        == validateFen(completed)
        loaded    == chessLoad(completed)
    IN  /\ loadArg' = fen
        /\ loadFen' = completed
        /\ loadOk' = ok
        /\ loadReport' = IF ok THEN none ELSE "Invalid FEN"
        /\ IF ok
           THEN /\ chess' = loaded
                /\ chessHistory' = <<>>
                /\ moveHistory' = <<>>
                /\ currentMoveIndex' = -1
                /\ updateBoardState(loaded, orientation)
           ELSE UNCHANGED <<chess, chessHistory, moveHistory, currentMoveIndex, board,
                            engineVars>>

\* the number of board-control presses so far
presses == Cardinality({i \in 1..Len(opLog) : opLog[i].op # "scan"})

\* the board operations so far: presses, moves, undos, redos, engine results
operations == presses + steps

\* toggledFen that always hands the move to Black
toggledFenToBlack(fen) ==
    LET parts == split(fen, " ")
    IN  join([parts EXCEPT ![2] = "b"], " ")

toggledFen(fen) ==
    LET parts == split(fen, " ")
    IN  join([parts EXCEPT ![2] = IF parts[2] = "w" THEN "b" ELSE "w"], " ")

toggleTurn ==
    LET cur == chessFen(chess)
    IN  /\ presses < MaxOps /\ operations < MaxSteps
        /\ loadPosition(toggledFen(cur), none)
        /\ statusMsg' = IF loadOk' THEN statusMsg ELSE "Invalid FEN"
        /\ opLog' = Append(opLog, [op |-> "toggleTurn", before |-> cur])
        /\ UNCHANGED <<offScan, pc, caller, req, resp, srvVars, cliVars, stepVars>>

rotateBoardLogic ==
    LET cur == chessFen(chess)
    IN  /\ presses < MaxOps /\ operations < MaxSteps
        /\ loadPosition(rotateFen(cur), none)
        /\ statusMsg' = IF loadOk' THEN statusMsg ELSE "Invalid FEN"
        /\ opLog' = Append(opLog, [op |-> "rotate", before |-> cur])
        /\ UNCHANGED <<offScan, pc, caller, req, resp, srvVars, cliVars, stepVars>>

(***************************************************************************)
(* The scan: client request, server handler, client continuation           *)
(***************************************************************************)

\* handleImageUpload up to the fetch of the function
handleImageUpload ==
    /\ pc = "idle"
    /\ pc' = "requested"
    /\ caller' = "app"
    /\ req' = [httpMethod |-> "POST", body |-> "image"]
    /\ statusMsg' = "Uploading"
    /\ UNCHANGED <<offScan, resp, srvVars, cliVars, loadVars, appVars, opLog>>

\* any other caller of the function
otherRequest ==
    /\ pc = "idle"
    /\ \E m \in {"POST", "GET"},
          b \in {"absent", "notJson", "null", "noImage", "image"} :
          req' = [httpMethod |-> m, body |-> b]
    /\ pc' = "requested"
    /\ caller' = "other"
    /\ UNCHANGED <<offScan, resp, srvVars, cliVars, loadVars, appVars, statusMsg, opLog>>

\* the response to a request that does not reach the recognizer; 0: it does
entryStatus(r) ==
    IF r.httpMethod # "POST" THEN 405
    ELSE IF r.body \in {"absent", "notJson", "null"} THEN 500
    ELSE IF r.body = "noImage" THEN 400
    ELSE 0

\* handler, up to the await of the recognizer call
handlerEntry ==
    /\ pc = "requested"
    /\ IF entryStatus(req) = 0
       THEN pc' = "fetching" /\ UNCHANGED resp
       ELSE pc' = "responded" /\ resp' = [statusCode |-> entryStatus(req), fen |-> none]
    /\ UNCHANGED <<offScan, caller, req, srvVars, cliVars, loadVars, appVars, statusMsg, opLog>>

\* handler: the recognizer failed, or answered with something that is not ok
handlerFailure ==
    /\ pc = "fetching"
    /\ pc' = "responded"
    /\ resp' = [statusCode |-> 500, fen |-> none]
    /\ UNCHANGED <<offScan, caller, req, srvVars, cliVars, loadVars, appVars, statusMsg, opLog>>

\* handler: the recognizer's reply holds no position (missing, null or empty)
handlerNoFen ==
    /\ pc = "fetching"
    /\ pc' = "responded"
    /\ resp' = [statusCode |-> 422, fen |-> none]
    /\ UNCHANGED <<offScan, caller, req, srvVars, cliVars, loadVars, appVars, statusMsg, opLog>>

\* handler: the recognizer's reply holds a position
handlerFen ==
    /\ pc = "fetching"
    /\ \E raw \in RawFens :
          LET r == postProcess(raw)
          IN  /\ srvRaw' = raw
              /\ srvCompleted' = r.completed
              /\ resp' = [statusCode |-> r.statusCode, fen |-> r.fen]
    /\ pc' = "responded"
    /\ UNCHANGED <<offScan, caller, req, cliVars, loadVars, appVars, statusMsg, opLog>>

\* handleImageUpload after the fetch: a response that is not ok
uploadFailed ==
    /\ pc = "responded"
    /\ caller = "app"
    /\ resp.statusCode # 200
    /\ pc' = "done"
    /\ statusMsg' = "Error"
    /\ UNCHANGED <<offScan, caller, req, resp, srvVars, cliVars, loadVars, appVars, opLog>>

\* handleImageUpload after the fetch: detectOrientation, then loadPosition
uploadSucceeded ==
    /\ pc = "responded"
    /\ caller = "app"
    /\ resp.statusCode = 200
    /\ LET d == detectOrientation(resp.fen)
       IN  /\ apiFen' = resp.fen
           /\ isFlipped' = d.isFlipped
           /\ tier' = d.tier
           /\ orientedFen' = d.fen
           /\ loadPosition(d.fen, "white")
    /\ statusMsg' = "Board detected"
    /\ opLog' = Append(opLog, [op |-> "scan", before |-> chessFen(chess)])
    /\ pc' = "done"
    /\ UNCHANGED <<offScan, caller, req, resp, srvVars, stepVars>>

\* another caller takes its response
otherReceive ==
    /\ pc = "responded"
    /\ caller = "other"
    /\ pc' = "done"
    /\ UNCHANGED <<offScan, caller, req, resp, srvVars, cliVars, loadVars, appVars, statusMsg, opLog>>

Next ==
    \/ handleImageUpload
    \/ otherRequest
    \/ handlerEntry
    \/ handlerFailure
    \/ handlerNoFen
    \/ handlerFen
    \/ uploadFailed
    \/ uploadSucceeded
    \/ otherReceive
    \/ toggleTurn
    \/ rotateBoardLogic

Spec == Init /\ [][Next]_vars

(***************************************************************************)
(* The board controls: moves, undo, redo, and the engine's results.        *)
(* A square is named as the widget names it ("e2").  The rules engine is   *)
(* external; of its move rules only those of the pawn's single step and of *)
(* the knight are modelled, and only drags they decide are looked at.      *)
(***************************************************************************)


rowOf(square) == 9 - parseInt(SubSeq(square, 2, 2))
colOf(square) == CHOOSE i \in 1..8 : SubSeq("abcdefgh", i, i) = SubSeq(square, 1, 1)

pieceAt(c, square) == SubSeq(c.board[rowOf(square)], colOf(square), colOf(square))

colourOf(piece) == IF piece \in UpperCase THEN "w" ELSE "b"

distance(a, b) == IF a >= b THEN a - b ELSE b - a

\* the grid with the piece of square from put on square to
gridAfter(grid, from, to) ==
    LET piece   == SubSeq(grid[rowOf(from)], colOf(from), colOf(from))
        put(row, col, p) == SubSeq(row, 1, col - 1) \o p \o SubSeq(row, col + 1, 8)
        lifted  == [grid EXCEPT ![rowOf(from)] = put(@, colOf(from), "1")]
    IN  [lifted EXCEPT ![rowOf(to)] = put(@, colOf(to), piece)]

\* the drags whose legality the modelled rules decide: of a knight, or of a
\* pawn along its file by other than two squares; no king is in check on the
\* positions looked at
decided(c, from, to) ==
    LET piece == pieceAt(c, from)
    IN  \/ piece \in {"N", "n"}
        \/ /\ piece \in {"P", "p"}
           /\ colOf(from) = colOf(to)
           /\ distance(rowOf(from), rowOf(to)) # 2
           /\ rowOf(to) \notin {1, 8}

\* chess.move({ from, to, promotion: 'q' }) finds the move among the legal ones
accepts(c, from, to) ==
    LET piece  == pieceAt(c, from)
        target == pieceAt(c, to)
    IN  /\ piece # "1"
        /\ colourOf(piece) = c.turn
        /\ \/ /\ piece \in {"P", "p"}
              /\ colOf(from) = colOf(to)
              /\ rowOf(to) = rowOf(from) + (IF piece = "P" THEN -1 ELSE 1)
              /\ target = "1"
           \/ /\ piece \in {"N", "n"}
              /\ <<distance(rowOf(from), rowOf(to)), distance(colOf(from), colOf(to))>>
                     \in {<<1, 2>>, <<2, 1>>}
              /\ (target = "1" \/ colourOf(target) # c.turn)

RECURSIVE numberOf(_)
\* a move counter read from its digits
numberOf(digits) ==
    IF Len(digits) <= 1 THEN parseInt(digits)
    ELSE 10 * numberOf(SubSeq(digits, 1, Len(digits) - 1))
         + parseInt(SubSeq(digits, Len(digits), Len(digits)))

\* the position after an accepted move of a pawn by one square or of a knight
chessMove(c, from, to) ==
    LET piece   == pieceAt(c, from)
        capture == pieceAt(c, to) # "1"
    IN  [board    |-> gridAfter(c.board, from, to),
         turn     |-> IF c.turn = "w" THEN "b" ELSE "w",
         castling |-> c.castling,
         ep       |-> "-",
         half     |-> IF piece \in {"P", "p"} \/ capture THEN "0"
                      ELSE ToString(numberOf(c.half) + 1),
         full     |-> IF c.turn = "b" THEN ToString(numberOf(c.full) + 1) ELSE c.full]

\* what the widget shows once a piece was dropped, before its after event
droppedOn(fen, from, to) ==
    LET parts == split(fen, " ")
        grid  == [i \in 1..8 |-> expand(split(parts[1], "/")[i])]
        moved == gridAfter(grid, from, to)
    IN  join([parts EXCEPT ![1] = join([i \in 1..8 |-> compressFrom(moved[i], 0)], "/")], " ")

\* what chess.move does with a move it does not find legal: it throws
\* (chess.js 1.0.0) or returns null (chess.js 0.x)
Rejections == {"throws", "null"}

\* onMove with the history kept whole when a move is made after an undo
onMoveKeepsHistory(orig, dest) ==
    /\ operations < MaxSteps
    /\ decided(chess, orig, dest)
    /\ steps' = steps + 1
    /\ IF accepts(chess, orig, dest)
       THEN LET newChess == chessMove(chess, orig, dest)
            IN  /\ chess' = newChess
                /\ chessHistory' = Append(chessHistory, chess)
                /\ moveHistory' = Append(moveHistory, [from |-> orig, to |-> dest])
                /\ currentMoveIndex' = currentMoveIndex + 1
                /\ updateBoardState(newChess, none)
                /\ lastStep' = [op |-> "onMove", from |-> orig, to |-> dest,
                                outcome |-> "accepted"]
       ELSE \E rejection \in Rejections :
                /\ board' = [board EXCEPT !.fen =
                                IF rejection = "null" THEN chessFen(chess)
                                ELSE droppedOn(board.fen, orig, dest)]
                /\ lastStep' = [op |-> "onMove", from |-> orig, to |-> dest,
                                outcome |-> rejection]
                /\ UNCHANGED <<chess, chessHistory, moveHistory, currentMoveIndex, engineVars>>
    /\ UNCHANGED <<offScan, pc, caller, req, resp, srvVars, cliVars, loadVars, statusMsg, opLog>>

\* the widget's after event: onMove(orig, dest)
onMove(orig, dest) ==
    /\ operations < MaxSteps
    /\ decided(chess, orig, dest)
    /\ steps' = steps + 1
    /\ IF accepts(chess, orig, dest)
       THEN LET newChess == chessMove(chess, orig, dest)
                kept     == IF currentMoveIndex < Len(moveHistory) - 1
                            THEN SubSeq(moveHistory, 1, currentMoveIndex + 1)
                            ELSE moveHistory
            IN  /\ chess' = newChess
                /\ chessHistory' = Append(chessHistory, chess)
                /\ moveHistory' = Append(kept, [from |-> orig, to |-> dest])
                /\ currentMoveIndex' = currentMoveIndex + 1
                /\ updateBoardState(newChess, none)
                /\ lastStep' = [op |-> "onMove", from |-> orig, to |-> dest,
                                outcome |-> "accepted"]
       ELSE \E rejection \in Rejections :
                /\ board' = [board EXCEPT !.fen =
                                IF rejection = "null" THEN chessFen(chess)
                                ELSE droppedOn(board.fen, orig, dest)]
                /\ lastStep' = [op |-> "onMove", from |-> orig, to |-> dest,
                                outcome |-> rejection]
                /\ UNCHANGED <<chess, chessHistory, moveHistory, currentMoveIndex, engineVars>>
    /\ UNCHANGED <<offScan, pc, caller, req, resp, srvVars, cliVars, loadVars, statusMsg, opLog>>

\* undo(); chess.undo() goes back to the position before the latest move
undo ==
    /\ operations < MaxSteps
    /\ steps' = steps + 1
    /\ IF currentMoveIndex >= 0
       THEN LET newChess == IF chessHistory = <<>> THEN chess
                            ELSE chessHistory[Len(chessHistory)]
            IN  /\ chess' = newChess
                /\ chessHistory' = SubSeq(chessHistory, 1, Len(chessHistory) - 1)
                /\ currentMoveIndex' = currentMoveIndex - 1
                /\ updateBoardState(newChess, none)
                /\ lastStep' = [op |-> "undo", acted |-> TRUE]
                /\ UNCHANGED moveHistory
       ELSE /\ lastStep' = [op |-> "undo", acted |-> FALSE]
            /\ UNCHANGED <<chess, chessHistory, moveHistory, currentMoveIndex, board, engineVars>>
    /\ UNCHANGED <<offScan, pc, caller, req, resp, srvVars, cliVars, loadVars, statusMsg, opLog>>

\* redo(); the move made again is the one that led from this position
redo ==
    /\ operations < MaxSteps
    /\ steps' = steps + 1
    /\ IF currentMoveIndex < Len(moveHistory) - 1
       THEN LET move     == moveHistory[currentMoveIndex + 2]
                newChess == chessMove(chess, move.from, move.to)
            IN  /\ accepts(chess, move.from, move.to)
                /\ chess' = newChess
                /\ chessHistory' = Append(chessHistory, chess)
                /\ currentMoveIndex' = currentMoveIndex + 1
                /\ updateBoardState(newChess, none)
                /\ lastStep' = [op |-> "redo", acted |-> TRUE]
                /\ UNCHANGED moveHistory
       ELSE /\ lastStep' = [op |-> "redo", acted |-> FALSE]
            /\ UNCHANGED <<chess, chessHistory, moveHistory, currentMoveIndex, board, engineVars>>
    /\ UNCHANGED <<offScan, pc, caller, req, resp, srvVars, cliVars, loadVars, statusMsg, opLog>>

\* analysisResult without the comparison of the position
analysisResultUnchecked(analysisFen) ==
    /\ operations < MaxSteps
    /\ steps' = steps + 1
    /\ analysisFen \in analyses
    /\ \E withMoves \in BOOLEAN :
          /\ lastStep' = [op |-> "result", fen |-> analysisFen]
          /\ evalDisplay' = resultShown(analysisFen)
          /\ currentArrows' = IF withMoves THEN analysisFen ELSE currentArrows
    /\ UNCHANGED <<offScan, pc, caller, req, resp, srvVars, cliVars, loadVars, chess,
                   chessHistory, moveHistory, currentMoveIndex, board, engine, analyses,
                   statusMsg, opLog>>

\* the callback given to engine.analyze(analysisFen, 15, ...) runs with a
\* result, with or without moves in it
analysisResult(analysisFen) ==
    /\ operations < MaxSteps
    /\ steps' = steps + 1
    /\ analysisFen \in analyses
    /\ \E withMoves \in BOOLEAN :
          /\ lastStep' = [op |-> "result", fen |-> analysisFen]
          /\ IF chessFen(chess) # analysisFen
             THEN UNCHANGED <<evalDisplay, currentArrows>>
             ELSE /\ evalDisplay' = resultShown(analysisFen)
                  /\ currentArrows' = IF withMoves THEN analysisFen ELSE currentArrows
    /\ UNCHANGED <<offScan, pc, caller, req, resp, srvVars, cliVars, loadVars, chess,
                   chessHistory, moveHistory, currentMoveIndex, board, engine, analyses,
                   statusMsg, opLog>>

\* the app with the function's response to a scan about to arrive
InitControls ==
    /\ pc = "responded"
    /\ caller = "app"
    /\ req = [httpMethod |-> "POST", body |-> "image"]
    /\ \E raw \in {"8/8/8/8/8/2k5/2P5/2K5",         \* a position
                   "8/8/8/8/8/5k2/8/2K5",           \* bare kings
                   "r3k2r/8/8/8/8/8/8/R3K2R1"} :    \* a row of 9 squares: the rules engine refuses it
          LET r == postProcess(raw)
          IN  /\ srvRaw = raw
              /\ srvCompleted = r.completed
              /\ resp = [statusCode |-> r.statusCode, fen |-> r.fen]
    /\ appInitial
    /\ engineStarted
    /\ compressIdle /\ filterIdle /\ invIdle

NextControls ==
    \/ \E d \in {<<"e2", "e3">>, <<"g1", "f3">>} : onMove(d[1], d[2])
    \/ undo
    \/ redo
    \/ toggleTurn
    \/ rotateBoardLogic
    \/ uploadSucceeded
    \/ \E a \in analyses : analysisResult(a)

SpecControls == InitControls /\ [][NextControls]_vars

(***************************************************************************)
(* The arrow animation: showMoveArrows, animateArrows, clearArrows and the *)
(* timer callbacks.  A timer is known by its handle, the animation that    *)
(* set it, what it runs ("next", or "restart" for the callback that starts *)
(* the loop over), and idx and arrows.length of its animation.             *)
(***************************************************************************)

MaxTimers == 6      \* timers set, and animations started or cleared, in one behaviour

\* the most arrows shown: result.moves.slice(0, 3)
MaxArrows == 3

offArrows == <<compressVars, filterVars, invVars, workerVars, pc, caller, req, resp,
               srvVars, cliVars, loadVars, chess, chessHistory, moveHistory,
               currentMoveIndex, board, engine, analyses, evalDisplay, stepVars,
               statusMsg, opLog>>

\* clearTimeout(handle) on the timers given
clearTimeout(pending, handle) == {t \in pending : t.handle # handle}

\* next() of the animation given, on the timers left: the generation check,
\* then the next arrow and a timer of 600 ms, or the timer of 1200 ms that
\* starts the loop over
next(generation, idx, total, pending) ==
    IF generation # arrowAnimationGeneration'
    THEN /\ timers' = pending
         /\ UNCHANGED <<shapes, arrowAnimationTimeout, handles>>
    ELSE /\ handles' = handles + 1
         /\ arrowAnimationTimeout' = handles + 1
         /\ IF idx < total
            THEN /\ shapes' = [n |-> idx + 1, by |-> generation]
                 /\ timers' = pending \cup {[handle |-> handles + 1, generation |-> generation,
                                             runs |-> "next", idx |-> idx + 1, total |-> total]}
            ELSE /\ timers' = pending \cup {[handle |-> handles + 1, generation |-> generation,
                                             runs |-> "restart", idx |-> idx, total |-> total]}
                 /\ UNCHANGED shapes

\* clearArrows that only wipes the shapes
clearArrowsShapesOnly ==
    /\ arrowAnimationGeneration < MaxTimers
    /\ shapes' = noShapes
    /\ currentArrows' = none
    /\ UNCHANGED <<arrowAnimationGeneration, timers, arrowAnimationTimeout, handles, offArrows>>

\* clearArrows(), as updateBoardState calls it
clearArrows ==
    /\ arrowAnimationGeneration < MaxTimers
    /\ timers' = clearTimeout(timers, arrowAnimationTimeout)
    /\ arrowAnimationGeneration' = arrowAnimationGeneration + 1
    /\ shapes' = noShapes
    /\ currentArrows' = none
    /\ UNCHANGED <<arrowAnimationTimeout, handles, offArrows>>

\* showMoveArrows(moves) with total moves: clearArrows(), then
\* animateArrows(arrows) up to its first call of next()
showMoveArrows(total) ==
    /\ arrowAnimationGeneration + 2 <= MaxTimers
    /\ handles < MaxTimers
    /\ arrowAnimationGeneration' = arrowAnimationGeneration + 2
    /\ currentArrows' = chessFen(chess)
    /\ next(arrowAnimationGeneration + 2, 0, total,
            clearTimeout(timers, arrowAnimationTimeout))
    /\ UNCHANGED offArrows

\* a timer goes off: next, or the callback that starts the loop over
timerFired(t) ==
    /\ t \in timers
    /\ handles < MaxTimers
    /\ UNCHANGED <<arrowAnimationGeneration, currentArrows>>
    /\ IF t.runs = "next"
       THEN next(t.generation, t.idx, t.total, timers \ {t})
       ELSE IF t.generation # arrowAnimationGeneration
            THEN /\ timers' = timers \ {t}
                 /\ UNCHANGED <<shapes, arrowAnimationTimeout, handles>>
            ELSE next(t.generation, 0, t.total, timers \ {t})
    /\ UNCHANGED offArrows

NextArrows ==
    \/ \E total \in 1..MaxArrows : showMoveArrows(total)
    \/ clearArrows
    \/ \E t \in timers : timerFired(t)

SpecArrows == Init /\ [][NextArrows]_<<arrowVars, currentArrows>>

(***************************************************************************)
(* The engine worker: the messages of the main thread and the lines the    *)
(* engine prints.  The k-th 'command' message carries the command ck.      *)
(***************************************************************************)

MaxCommands == 3    \* 'command' messages, and 'stop' messages, in one behaviour

offWorker == <<vars, compressVars, filterVars, invVars, arrowVars>>

\* the command of the k-th 'command' message
commandNamed(k) == "c" \o ToString(k)

\* { type: 'init' }, which the main thread sends once: initStockfish() gets
\* the engine and sends it 'uci'
initDone ==
    /\ ~stockfish /\ lastPosted.type # "error"
    /\ stockfish' = TRUE
    /\ forwarded' = Append(forwarded, "uci")
    /\ engineOwes' = engineOwes + 1
    /\ UNCHANGED <<messageQueue, isReady, received, lastPosted, offWorker>>

\* { type: 'init' }: importScripts or Stockfish() throws
initFailed ==
    /\ ~stockfish /\ lastPosted.type # "error"
    /\ lastPosted' = [type |-> "error", data |-> "Failed to initialize Stockfish"]
    /\ UNCHANGED <<stockfish, messageQueue, isReady, received, forwarded, engineOwes, offWorker>>

\* the 'command' branch that hands every command to the engine at once
commandTakenNoQueue ==
    /\ received < MaxCommands
    /\ received' = received + 1
    /\ IF stockfish
       THEN /\ forwarded' = Append(forwarded, commandNamed(received + 1))
            /\ UNCHANGED messageQueue
       ELSE /\ messageQueue' = Append(messageQueue, commandNamed(received + 1))
            /\ UNCHANGED forwarded
    /\ UNCHANGED <<stockfish, isReady, engineOwes, lastPosted, offWorker>>

\* { type: 'command', command }
commandTaken ==
    /\ received < MaxCommands
    /\ received' = received + 1
    /\ IF isReady /\ stockfish
       THEN /\ forwarded' = Append(forwarded, commandNamed(received + 1))
            /\ UNCHANGED messageQueue
       ELSE /\ messageQueue' = Append(messageQueue, commandNamed(received + 1))
            /\ UNCHANGED forwarded
    /\ UNCHANGED <<stockfish, isReady, engineOwes, lastPosted, offWorker>>

\* { type: 'stop' }
stopTaken ==
    /\ Cardinality({i \in 1..Len(forwarded) : forwarded[i] = "stop"}) < MaxCommands
    /\ stockfish
    /\ forwarded' = Append(forwarded, "stop")
    /\ UNCHANGED <<stockfish, messageQueue, isReady, received, engineOwes, lastPosted, offWorker>>

\* stockfish.onmessage('uciok'), the engine's answer to 'uci'
uciokPrinted ==
    /\ stockfish /\ engineOwes > 0
    /\ engineOwes' = engineOwes - 1
    /\ lastPosted' = [type |-> "output", data |-> "uciok"]
    /\ isReady' = TRUE
    /\ forwarded' = forwarded \o messageQueue
    /\ messageQueue' = <<>>
    /\ UNCHANGED <<stockfish, received, offWorker>>

\* stockfish.onmessage(line) of any other line
linePrinted ==
    /\ stockfish
    /\ lastPosted.data # "info"
    /\ lastPosted' = [type |-> "output", data |-> "info"]
    /\ UNCHANGED <<stockfish, messageQueue, isReady, received, forwarded, engineOwes, offWorker>>

NextWorker ==
    \/ initDone
    \/ initFailed
    \/ commandTaken
    \/ stopTaken
    \/ uciokPrinted
    \/ linePrinted

SpecWorker == Init /\ [][NextWorker]_workerVars

(***************************************************************************)
(* Image preparation: compressImage(file, maxWidth = 1024, quality = 0.7)  *)
(* A file is known by its byte size and the width and height of the        *)
(* picture it holds; a data URL by its encoding and the size of its        *)
(* picture.                                                                *)
(***************************************************************************)

\* file.size < 300000
SizeThreshold == 300000

\* the default of the maxWidth parameter
DefaultMaxWidth == 1024

Files == [size : {0, 1, 299999, 300000, 300001, 5000000},
          width : {1, 512, 1023, 1024, 1025, 1536, 2048, 4032},
          height : {1, 683, 768, 1000, 3024}]

\* takesFastPath with the size compared by <=
takesFastPathInclusive(f) == f.size <= SizeThreshold

\* if (file.size < 300000): the file is read as it is
takesFastPath(f) == f.size < SizeThreshold

\* roundedHeight with the quotient cut off instead of rounded
roundedHeightFloor(height, width, maxW) == (height * maxW) \div width

\* Math.round(height * maxWidth / width): the nearest integer, a half upwards
roundedHeight(height, width, maxW) == (2 * height * maxW + width) \div (2 * width)

\* the size the canvas gets
canvasSize(width, height, maxW) ==
    IF width > maxW
    THEN [width |-> maxW, height |-> roundedHeight(height, width, maxW)]
    ELSE [width |-> width, height |-> height]

offCompress == <<vars, filterVars, invVars, arrowVars, workerVars>>

InitCompress ==
    /\ file \in Files
    /\ maxWidth \in {DefaultMaxWidth, 512}
    /\ cpc = "idle"
    /\ compressed = notResolved
    /\ scanInitial /\ filterIdle /\ invIdle

\* compressImage up to reader.readAsDataURL(file), on either path
compressImage ==
    /\ cpc = "idle"
    /\ cpc' = IF takesFastPath(file) THEN "readingAsIs" ELSE "reading"
    /\ UNCHANGED <<offCompress, file, maxWidth, compressed>>

\* reader.onload of the fast path: resolve(e.target.result)
fastPathLoaded ==
    /\ cpc = "readingAsIs"
    /\ compressed' = [encoding |-> "asUploaded", width |-> file.width, height |-> file.height]
    /\ cpc' = "resolved"
    /\ UNCHANGED <<offCompress, file, maxWidth>>

\* reader.onload of the resize path: the picture is handed to an Image
readerLoaded ==
    /\ cpc = "reading"
    /\ cpc' = "decoding"
    /\ UNCHANGED <<offCompress, file, maxWidth, compressed>>

\* img.onload: the canvas is sized, drawn and encoded as JPEG
imageLoaded ==
    /\ cpc = "decoding"
    /\ LET size == canvasSize(file.width, file.height, maxWidth)
       IN  compressed' = [encoding |-> "image/jpeg", width |-> size.width,
                          height |-> size.height]
    /\ cpc' = "resolved"
    /\ UNCHANGED <<offCompress, file, maxWidth>>

\* reader.onerror on either path, img.onerror: reject
compressFailed ==
    /\ cpc \in {"readingAsIs", "reading", "decoding"}
    /\ cpc' = "rejected"
    /\ UNCHANGED <<offCompress, file, maxWidth, compressed>>

NextCompress ==
    \/ compressImage
    \/ fastPathLoaded
    \/ readerLoaded
    \/ imageLoaded
    \/ compressFailed

SpecCompress == InitCompress /\ [][NextCompress]_compressVars

(***************************************************************************)
(* Image preparation: removeBleeding and the separable Gaussian blur.      *)
(* An ImageData is its width, its height and the RGBA bytes, row by row.   *)
(* The Float32 values are kept in hundredths as integers and the kernel    *)
(* weights in thousandths, which keeps every product within 32 bits; the   *)
(* rounding of single floats is not modelled.                              *)
(***************************************************************************)

\* const bg = _gaussianBlur(gray, width, height, 25)
BackgroundSigma == 25

\* const denoised = _gaussianBlur(norm, width, height, 2)
DenoiseSigma == 2

\* blendFactor = 0.5, in percent
BlendPercent == 50

\* Math.ceil(3 * sigma) of a whole sigma
radiusOf(sigma) == 3 * sigma

\* Math.exp(-(x * x) / (2 * sigma * sigma)) in thousandths for x = 0 .. radius, sigma = 25
Kernel25 ==
    <<1000, 999, 997, 993, 987, 980, 972, 962, 950, 937,
      923, 908, 891, 874, 855, 835, 815, 794, 772, 749,
      726, 703, 679, 655, 631, 607, 582, 558, 534, 510,
      487, 464, 441, 418, 397, 375, 355, 334, 315, 296,
      278, 261, 244, 228, 213, 198, 184, 171, 158, 146,
      135, 125, 115, 106, 97, 89, 81, 74, 68, 62,
      56, 51, 46, 42, 38, 34, 31, 28, 25, 22,
      20, 18, 16, 14, 13, 11>>
\* the same for sigma = 2
Kernel2 ==
    <<1000, 882, 607, 325, 135, 44, 11>>
\* kernel[x + radius] before the division by ksum
kernelAt(sigma, x) ==
    LET t == IF sigma = BackgroundSigma THEN Kernel25 ELSE Kernel2
    IN  t[(IF x < 0 THEN -x ELSE x) + 1]

RECURSIVE sumOver(_, _, _)
\* acc after the loop over k = lo .. hi of acc += term[k]
sumOver(term, lo, hi) ==
    IF lo > hi THEN 0
    ELSE IF lo = hi THEN term[lo]
    ELSE LET mid == (lo + hi) \div 2
         IN  sumOver(term, lo, mid) + sumOver(term, mid + 1, hi)

\* ksum: the sum of the weights of the kernel
ksumOf(sigma) ==
    sumOver([x \in (-radiusOf(sigma))..radiusOf(sigma) |-> kernelAt(sigma, x)],
            -radiusOf(sigma), radiusOf(sigma))

\* clampIndex that wraps around instead of staying at the border
clampIndexWrapped(i, n) == i % n

\* Math.min(Math.max(i, 0), n - 1)
clampIndex(i, n) == IF i < 0 THEN 0 ELSE IF i > n - 1 THEN n - 1 ELSE i

\* the index read by tap k of the horizontal pass: row + Math.min(Math.max(x + k, 0), width - 1)
horizontalRead(row, x, k, width) == row + clampIndex(x + k, width)

\* the index read by tap k of the vertical pass: Math.min(Math.max(y + k, 0), height - 1) * width + x
verticalRead(x, y, k, width, height) == clampIndex(y + k, height) * width + x

\* the inner loop of the horizontal pass for the pixel x of the row that starts at row
horizontalTaps(src, row, x, width, sigma) ==
    sumOver([k \in (-radiusOf(sigma))..radiusOf(sigma) |->
                src[horizontalRead(row, x, k, width) + 1] * kernelAt(sigma, k)],
            -radiusOf(sigma), radiusOf(sigma))

\* the inner loop of the vertical pass for the pixel x of the row y
verticalTaps(tmp, x, y, width, height, sigma) ==
    sumOver([k \in (-radiusOf(sigma))..radiusOf(sigma) |->
                tmp[verticalRead(x, y, k, width, height) + 1] * kernelAt(sigma, k)],
            -radiusOf(sigma), radiusOf(sigma))

\* new Float32Array(n) once the loop over its n elements has filled it
filledArray(element, n) == SubSeq(element, 1, n)

\* _gaussianBlur(src, width, height, sigma)
gaussianBlur(src, width, height, sigma) ==
    LET n    == width * height
        ksum == ksumOf(sigma)
        tmp  == filledArray([j \in 1..n |->
                    horizontalTaps(src, ((j - 1) \div width) * width, (j - 1) % width,
                                   width, sigma) \div ksum], n)
    IN  filledArray([j \in 1..n |->
            verticalTaps(tmp, (j - 1) % width, (j - 1) \div width,
                         width, height, sigma) \div ksum], n)

\* 0.299 * r + 0.587 * g + 0.114 * b of pixel i (from 0)
luminance(data, i) ==
    (299 * data[4 * i + 1] + 587 * data[4 * i + 2] + 114 * data[4 * i + 3]) \div 10

\* ((gray[i] + 1) / (bg[i] + 1)) * 255
normalizedValue(gray, bg) == ((gray + 100) * 25500) \div (bg + 100)

\* Math.min(255, Math.max(0, normalizedValue * blendFactor + gray[i] * (1 - blendFactor)))
blended(gray, bg) ==
    LET v == (BlendPercent * normalizedValue(gray, bg) + (100 - BlendPercent) * gray) \div 100
    IN  IF v < 0 THEN 0 ELSE IF v > 25500 THEN 25500 ELSE v

\* Math.round of a value in hundredths
round(v) == (v + 50) \div 100

\* the value a Uint8ClampedArray keeps of a whole number
toUint8Clamped(v) == IF v < 0 THEN 0 ELSE IF v > 255 THEN 255 ELSE v

\* outPixel with the alpha of the input pixel kept
outPixelKeepAlpha(v, data, i) ==
    <<toUint8Clamped(v), toUint8Clamped(v), toUint8Clamped(v), data[4 * i + 4]>>

\* the four bytes written for pixel i: out[i*4] = out[i*4+1] = out[i*4+2] = v, alpha 255
outPixel(v, data, i) ==
    <<toUint8Clamped(v), toUint8Clamped(v), toUint8Clamped(v), 255>>

\* removeBleeding(imageData): the ImageData it returns
removeBleeding(im) ==
    LET n        == im.width * im.height
        gray     == filledArray([j \in 1..n |-> luminance(im.data, j - 1)], n)
        bg       == gaussianBlur(gray, im.width, im.height, BackgroundSigma)
        norm     == filledArray([j \in 1..n |-> blended(gray[j], bg[j])], n)
        denoised == gaussianBlur(norm, im.width, im.height, DenoiseSigma)
        pixels   == filledArray([j \in 1..n |->
                        outPixel(round(denoised[j]), im.data, j - 1)], n)
    IN  [width  |-> im.width,
         height |-> im.height,
         data   |-> filledArray([m \in 1..(4 * n) |->
                        pixels[((m - 1) \div 4) + 1][((m - 1) % 4) + 1]], 4 * n)]

\* dataAfter with the result written into the buffer of the input
dataAfterInPlace(data, out) == out

\* the input's bytes after the call: out is a new Uint8ClampedArray and
\* nothing is written to data
dataAfter(data, out) == data

\* the number of pixels of the largest picture
MaxPixels == 4

\* the number of times a picture is cleaned
MaxRuns == 2

\* the pictures of width x height pixels
rastersOf(width, height) ==
    {[width  |-> width,
      height |-> height,
      data   |-> [m \in 1..(4 * width * height) |-> px[((m - 1) \div 4) + 1][((m - 1) % 4) + 1]]] :
        px \in [1..(width * height) -> {<<0, 0, 0, 255>>, <<255, 255, 255, 255>>, <<200, 30, 60, 128>>}]}

Rasters ==
    UNION {rastersOf(d[1], d[2]) :
              d \in {e \in (1..MaxPixels) \X (1..MaxPixels) : e[1] * e[2] <= MaxPixels}}

InitFilter ==
    /\ imageData \in Rasters
    /\ filtered = <<>>
    /\ scanInitial /\ compressIdle /\ invIdle

\* applyRemoveBleeding: the picture on the canvas is read, cleaned and put back
applyRemoveBleeding ==
    /\ Len(filtered) < MaxRuns
    /\ LET out == removeBleeding(imageData)
       IN  /\ filtered' = Append(filtered, [input |-> imageData, output |-> out])
           /\ imageData' = [imageData EXCEPT !.data = dataAfter(imageData.data, out.data)]
    /\ UNCHANGED <<vars, compressVars, invVars, arrowVars, workerVars>>

NextFilter == applyRemoveBleeding

SpecFilter == InitFilter /\ [][NextFilter]_filterVars

(***************************************************************************)
(* The handler called again while a call is waiting: every invocation has  *)
(* its own event, form, response and result; the recognizer answers the    *)
(* form that was posted to it.                                             *)
(***************************************************************************)

\* the number of invocations in flight at once
MaxInvocations == 2

Invocations == 1..MaxInvocations

recognized(image) ==
    IF image = "imageA" THEN "r3k2r/8/8/8/8/8/8/R3K2R" ELSE "8/8/8/8/8/2k5/2P5/2K5 b - - 3 7"

\* the events: a POST with a picture, a POST without one, a GET
Events ==
    {[httpMethod |-> "POST", body |-> "image", image |-> im] : im \in {"imageA", "imageB"}}
      \cup {[httpMethod |-> "POST", body |-> "noImage", image |-> none],
            [httpMethod |-> "GET", body |-> "image", image |-> "imageA"]}

\* what the recognizer can answer to a posted picture: an error status, a
\* result without a position, the position it reads off the picture
repliesTo(image) ==
    {[arrived |-> TRUE, ok |-> FALSE, fen |-> none],
     [arrived |-> TRUE, ok |-> TRUE, fen |-> none],
     [arrived |-> TRUE, ok |-> TRUE, fen |-> recognized(image)]}

notCalled == [pc |-> "idle", event |-> [httpMethod |-> none, body |-> none, image |-> none], posted |-> none,
              response |-> [arrived |-> FALSE, ok |-> FALSE, fen |-> none], result |-> noResponse]

waiting == {"awaitFetch", "awaitText", "awaitJson"}

\* formOf with one form kept by the module and appended to by every
\* invocation: the recognizer reads the first file of the form
formOfShared(i) ==
    LET earlier == {j \in Invocations : j < i /\ inv[j].posted # none}
    IN  IF earlier = {} THEN inv[i].event.image
        ELSE inv[CHOOSE j \in earlier : \A k \in earlier : j <= k].posted

\* const form = new FormData(); form.append('file', blob, 'board.png')
formOf(i) == inv[i].event.image

\* the invocations other than i that wait at an await
othersWaiting(i) == {j \in Invocations \ {i} : inv[j].pc \in waiting}

\* i goes on after an await
resumed(i) ==
    interleaved' = IF othersWaiting(i) # {} THEN interleaved \cup {i} ELSE interleaved

offInv == <<vars, compressVars, filterVars, arrowVars, workerVars>>

InitConcurrent ==
    /\ inv = [i \in Invocations |-> notCalled]
    /\ interleaved = {}
    /\ scanInitial /\ compressIdle /\ filterIdle

\* the platform calls handler(event)
handlerCalled(i) ==
    /\ inv[i].pc = "idle"
    /\ \E e \in Events : inv' = [inv EXCEPT ![i].pc = "called", ![i].event = e]
    /\ UNCHANGED <<offInv, interleaved>>

\* handler up to await fetch(...), or to the return of 405, 400 or 500
handlerStarted(i) ==
    /\ inv[i].pc = "called"
    /\ LET status == entryStatus(inv[i].event)
       IN  inv' = IF status = 0
                  THEN [inv EXCEPT ![i].pc = "awaitFetch", ![i].posted = formOf(i)]
                  ELSE [inv EXCEPT ![i].pc = "returned",
                                   ![i].result = [statusCode |-> status, fen |-> none]]
    /\ UNCHANGED <<offInv, interleaved>>

\* the fetch resolves: response.ok is looked at, text() or json() is awaited
fetchResolved(i) ==
    /\ inv[i].pc = "awaitFetch"
    /\ \E reply \in repliesTo(inv[i].posted) :
          inv' = [inv EXCEPT ![i].response = reply,
                             ![i].pc = IF reply.ok THEN "awaitJson" ELSE "awaitText"]
    /\ resumed(i)
    /\ UNCHANGED offInv

\* the fetch, text() or json() rejects, or text() resolves and the handler
\* throws: the catch block answers 500
handlerThrew(i) ==
    /\ inv[i].pc \in waiting
    /\ inv' = [inv EXCEPT ![i].pc = "returned",
                          ![i].result = [statusCode |-> 500, fen |-> none]]
    /\ resumed(i)
    /\ UNCHANGED offInv

\* json() resolves: 422 without a position, else completion and castling
jsonResolved(i) ==
    /\ inv[i].pc = "awaitJson"
    /\ LET fen == inv[i].response.fen
           r   == postProcess(fen)
       IN  inv' = IF fen = none
                  THEN [inv EXCEPT ![i].pc = "returned",
                                   ![i].result = [statusCode |-> 422, fen |-> none]]
                  ELSE [inv EXCEPT ![i].pc = "returned",
                                   ![i].result = [statusCode |-> r.statusCode, fen |-> r.fen]]
    /\ resumed(i)
    /\ UNCHANGED offInv

NextConcurrent ==
    \/ \E i \in Invocations : handlerCalled(i)
    \/ \E i \in Invocations : handlerStarted(i)
    \/ \E i \in Invocations : fetchResolved(i)
    \/ \E i \in Invocations : handlerThrew(i)
    \/ \E i \in Invocations : jsonResolved(i)

SpecConcurrent == InitConcurrent /\ [][NextConcurrent]_invVars

(***************************************************************************)
(* Reading a position string square by square, as the claims speak of it   *)
(***************************************************************************)

\* field number n (from 1) of a position string
fieldOf(fen, n) == split(fen, " ")[n]

fieldCount(fen) == Len(split(fen, " "))

placementOf(fen) == fieldOf(fen, 1)

rowsOf(fen) == split(placementOf(fen), "/")

RECURSIVE squaresBefore(_, _)
\* the number of squares described by the first i - 1 characters of a row
squaresBefore(row, i) ==
    IF i <= 1 THEN 0
    ELSE squaresBefore(row, i - 1)
           + (IF SubSeq(row, i - 1, i - 1) \in Digits
              THEN parseInt(SubSeq(row, i - 1, i - 1)) ELSE 1)

\* the piece letter on the column (0 = a .. 7 = h) of a row, "empty" without one
pieceOn(row, col) ==
    LET at == {i \in 1..Len(row) :
                  SubSeq(row, i, i) \notin Digits /\ squaresBefore(row, i) = col}
    IN  IF at = {} THEN "empty" ELSE LET i == CHOOSE i \in at : TRUE IN SubSeq(row, i, i)

\* the rows (from 0) in which the letter is found
rowsWith(rows, letter) ==
    {r \in 0..(Len(rows) - 1) :
        \E i \in 1..Len(rows[r + 1]) : SubSeq(rows[r + 1], i, i) = letter}

\* the first row that holds the letter
firstRowWith(rows, letter) ==
    CHOOSE r \in rowsWith(rows, letter) : \A q \in rowsWith(rows, letter) : r <= q

\* the rights the two back ranks of an 8-row placement qualify for
rightsOf(rows) ==
    LET rank1 == rows[8]
        rank8 == rows[1]
    IN  {x \in {"K", "Q", "k", "q"} :
            \/ x = "K" /\ pieceOn(rank1, 4) = "K" /\ pieceOn(rank1, 7) = "R"
            \/ x = "Q" /\ pieceOn(rank1, 4) = "K" /\ pieceOn(rank1, 0) = "R"
            \/ x = "k" /\ pieceOn(rank8, 4) = "k" /\ pieceOn(rank8, 7) = "r"
            \/ x = "q" /\ pieceOn(rank8, 4) = "k" /\ pieceOn(rank8, 0) = "r"}

\* the letters of a castling field
lettersOf(field) == {x \in {"K", "Q", "k", "q"} : includes(field, x)}

\* the handler answered 200 to a recognizer reply
served == srvRaw # none /\ resp.statusCode = 200

\* the client ran detectOrientation on a served position
oriented == apiFen # none

\* the number of letters of a class on the rows lo..hi (from 0)
lettersOn(rows, lo, hi, class) ==
    Cardinality({p \in (lo..hi) \X (1..9) :
                    /\ p[2] <= Len(rows[p[1] + 1])
                    /\ SubSeq(rows[p[1] + 1], p[2], p[2]) \in class})

\* part is more than 65% of a total that is not zero
moreThan65Percent(part, total) == total > 0 /\ 100 * part > 65 * total

\* White is above 65% of the first 4 rows and Black above 65% of the last 4
clearsBothBars(rows) ==
    /\ moreThan65Percent(lettersOn(rows, 0, 3, UpperCase),
                         lettersOn(rows, 0, 3, UpperCase \cup LowerCase))
    /\ moreThan65Percent(lettersOn(rows, 4, 7, LowerCase),
                         lettersOn(rows, 4, 7, UpperCase \cup LowerCase))

noKing(rows) == rowsWith(rows, "K") = {} /\ rowsWith(rows, "k") = {}

\* ten times the king score of the claim
scoreTimes10(rows) ==
    (IF rowsWith(rows, "K") # {} THEN 35 - 10 * firstRowWith(rows, "K") ELSE 0)
  + (IF rowsWith(rows, "k") # {} THEN 10 * firstRowWith(rows, "k") - 35 ELSE 0)

lastOp == opLog[Len(opLog)]
prevOp == opLog[Len(opLog) - 1]
rotatedTwice == Len(opLog) >= 2 /\ lastOp.op = "rotate" /\ prevOp.op = "rotate"

(***************************************************************************)
(* Claims                                                                  *)
(***************************************************************************)

\* C1: rotating twice gives the placement back: two presses of the rotate
\* control in a row leave the placement the position had before them, and
\* the transform applied twice to a valid placement from a scan returns it.
C1_RotateTwiceIsIdentity ==
    /\ rotatedTwice => placementOf(chessFen(chess)) = placementOf(prevOp.before)
    /\ (oriented /\ validPlacement(placementOf(apiFen)))
          => rotateFen(rotateFen(apiFen)) = apiFen

C1_Witness ==
    /\ rotatedTwice
    /\ oriented /\ validPlacement(placementOf(apiFen))
    /\ placementOf(lastOp.before) # placementOf(prevOp.before)
    /\ placementOf(chessFen(chess)) = placementOf(prevOp.before)

\* C2 (as claimed): after a scan is loaded, the castling field of the final
\* position string is the rights inferred from the final, orientation
\* corrected placement.
C2_CastlingFollowsOrientation ==
    (pc = "done" /\ oriented /\ loadOk /\ loadArg = orientedFen)
        => lettersOf(fieldOf(loadFen, 3)) = rightsOf(rowsOf(loadFen))

\* C3: with a king letter in the placement the king tier decides, and the
\* board is flipped exactly when the score is above 1.5; White king on row
\* 6 with Black king on row 1 is normal, the rows swapped is flipped.
C3_KingScoreDecides ==
    oriented =>
        /\ ~noKing(rowsOf(apiFen)) =>
              /\ tier = "kings"
              /\ isFlipped <=> scoreTimes10(rowsOf(apiFen)) > 15
        /\ placementOf(apiFen) = "8/5k2/8/8/8/8/2K5/8" => ~isFlipped
        /\ placementOf(apiFen) = "8/2K5/8/8/8/8/5k2/8" => isFlipped

C3_Witness ==
    /\ oriented
    /\ placementOf(apiFen) = "8/2K5/8/8/8/8/5k2/8"
    /\ tier = "kings"
    /\ isFlipped
    /\ placementOf(orientedFen) = "8/2k5/8/8/8/8/5K2/8"

\* C4: the piece-distribution fallback decides exactly when no king letter
\* is found, and on an 8-row placement it says flipped exactly when White
\* is above 65% of the first 4 rows and Black above 65% of the last 4.
C4_FallbackBothBars ==
    oriented =>
        /\ tier = "fallback" <=> noKing(rowsOf(apiFen))
        /\ (tier = "fallback" /\ Len(rowsOf(apiFen)) = 8)
              => (isFlipped <=> clearsBothBars(rowsOf(apiFen)))

C4_Witness ==
    /\ oriented
    /\ tier = "fallback"
    /\ isFlipped
    /\ placementOf(apiFen) = "PP6/p7/8/8/pp6/P7/8/8"

\* C5: a placement without king that does not clear both bars is returned
\* by detectOrientation as it came, and the upload goes on without error.
C5_DefaultsToNormal ==
    (oriented /\ noKing(rowsOf(apiFen)) /\ Len(rowsOf(apiFen)) = 8
        /\ ~clearsBothBars(rowsOf(apiFen)))
        => /\ ~isFlipped
           /\ orientedFen = apiFen
           /\ pc = "done"
           /\ statusMsg # "Error"

C5_Witness ==
    /\ oriented
    /\ placementOf(apiFen) = "8/8/8/8/8/8/8/8"
    /\ orientedFen = apiFen
    /\ loadArg = apiFen
    /\ pc = "done"

\* C6: each right is in the castling field of a 200 response exactly when
\* that colour's king is on the e-file of its back rank and its own rook on
\* the corner of that side.
C6_CastlingPerColour ==
    served => lettersOf(fieldOf(resp.fen, 3)) = rightsOf(rowsOf(srvRaw))

C6_Witness ==
    /\ served
    /\ rowsOf(srvRaw)[8] = "R2K3R"
    /\ rowsOf(srvRaw)[1] = "r3k2r"
    /\ fieldOf(resp.fen, 3) = "kq"

CastlingFieldValues ==
    {"-", "K", "Q", "k", "q", "KQ", "Kk", "Kq", "Qk", "Qq", "kq",
     "KQk", "KQq", "Kkq", "Qkq", "KQkq"}

\* C7: the castling field of a 200 response is "-" or letters of KQkq in
\* that order, and it is "-" exactly when no right qualifies.
C7_CastlingFieldNeverEmpty ==
    served =>
        /\ fieldOf(resp.fen, 3) \in CastlingFieldValues
        /\ fieldOf(resp.fen, 3) = "-" <=> rightsOf(rowsOf(srvRaw)) = {}

C7_Witness ==
    /\ served
    /\ fieldOf(resp.fen, 3) = "-"
    /\ fieldCount(srvRaw) = 6
    /\ fieldOf(srvRaw, 3) = "KQkq"

\* C8 (as claimed): every non-empty position string of the recognizer gets
\* a castling field and status 200, never 500.
C8_CastlingNeverFails ==
    (pc \in {"responded", "done"} /\ srvRaw # none) => resp.statusCode = 200

DefaultFields == <<"w", "-", "-", "0", "1">>

\* the k given fields followed by the defaults of the missing ones
filledUp(fen) ==
    join(split(fen, " ") \o SubSeq(DefaultFields, fieldCount(fen), 5), " ")

\* C9 (as claimed): a raw string of k < 6 fields is completed to exactly 6
\* fields: the k given ones, then the defaults of the missing ones.
C9_CompletionFillsMissing ==
    (srvRaw # none /\ fieldCount(srvRaw) < 6)
        => /\ fieldCount(srvCompleted) = 6
           /\ srvCompleted = filledUp(srvRaw)

\* C10: completion leaves a string of 6 fields as it is, completing its own
\* output changes nothing, and the completion in loadPosition does not
\* alter the string a scan hands to it.
C10_CompletionIdempotent ==
    /\ (srvRaw # none /\ fieldCount(srvRaw) = 6) => srvCompleted = srvRaw
    /\ srvRaw # none => handlerCompletion(srvCompleted) = srvCompleted
    /\ (oriented /\ loadArg = orientedFen) => loadFen = loadArg

C10_Witness ==
    /\ srvRaw # none /\ fieldCount(srvRaw) = 1
    /\ fieldCount(srvCompleted) = 6
    /\ oriented /\ loadArg = orientedFen
    /\ loadFen = loadArg

ClaimPieceLetters == {"p", "n", "b", "r", "q", "k", "P", "N", "B", "R", "Q", "K"}

\* a row of piece letters and digits 1..8 that describes exactly 8 squares
parseableRow(row) ==
    /\ \A i \in 1..Len(row) :
          SubSeq(row, i, i) \in ClaimPieceLetters \cup {"1", "2", "3", "4", "5", "6", "7", "8"}
    /\ squaresBefore(row, Len(row) + 1) = 8

\* exactly 8 rows, each of them parseable
parseable(placement) ==
    LET rows == split(placement, "/")
    IN  Len(rows) = 8 /\ \A i \in 1..8 : parseableRow(rows[i])

\* C11 (as claimed): a raw string whose placement cannot be parsed (a row
\* with an invalid character, a row that is not 8 squares, or not exactly 8
\* rows) is never answered with status 200 and a position built from it.
C11_MalformedRejected ==
    (pc \in {"responded", "done"} /\ srvRaw # none /\ ~parseable(placementOf(srvRaw)))
        => resp.statusCode # 200

EndgameRaw == "8/8/8/8/8/2k5/2P5/2K5"
EndgameFinal == "8/8/8/8/8/2k5/2P5/2K5 w - - 0 1"

\* C12: the raw string "8/8/8/8/8/2k5/2P5/2K5" without further fields goes
\* through completion, orientation detection (normal, no rotation) and the
\* castling inference ("-") and ends as "8/8/8/8/8/2k5/2P5/2K5 w - - 0 1".
C12_EndgameEndToEnd ==
    srvRaw = EndgameRaw =>
        /\ srvCompleted = EndgameFinal
        /\ resp = [statusCode |-> 200, fen |-> EndgameFinal]
        /\ oriented =>
              /\ ~isFlipped
              /\ orientedFen = EndgameFinal
              /\ lastOp.op = "scan" =>
                    /\ loadArg = EndgameFinal /\ loadFen = EndgameFinal /\ loadOk
                    /\ chessFen(chess) = EndgameFinal
                    /\ board = [fen |-> EndgameFinal, orientation |-> "white"]

C12_Witness ==
    /\ srvRaw = EndgameRaw
    /\ oriented /\ lastOp.op = "scan"
    /\ tier = "kings"
    /\ chessFen(chess) = EndgameFinal

BothCastlePlacement == "r3k2r/8/8/8/8/8/8/R3K2R"

\* C13: "r3k2r/8/8/8/8/8/8/R3K2R" with White to move is detected as normal
\* (kings on rows 0 and 7, score -7, no rotation) and gets the castling
\* field "KQkq".
C13_BothSidesCastle ==
    (served /\ placementOf(srvRaw) = BothCastlePlacement /\ fieldOf(srvCompleted, 2) = "w")
        => /\ fieldOf(resp.fen, 3) = "KQkq"
           /\ placementOf(resp.fen) = BothCastlePlacement
           /\ oriented =>
                 /\ firstRowWith(rowsOf(apiFen), "k") = 0
                 /\ firstRowWith(rowsOf(apiFen), "K") = 7
                 /\ scoreTimes10(rowsOf(apiFen)) = -70
                 /\ tier = "kings"
                 /\ ~isFlipped
                 /\ orientedFen = apiFen
                 /\ fieldOf(orientedFen, 3) = "KQkq"

C13_Witness ==
    /\ served /\ oriented
    /\ srvRaw = BothCastlePlacement
    /\ resp.fen = "r3k2r/8/8/8/8/8/8/R3K2R w KQkq - 0 1"
    /\ orientedFen = resp.fen
    /\ loadOk

RECURSIVE squaresOfRow(_)
\* the squares of a row from file a on: the piece letter or "empty"
squaresOfRow(row) ==
    IF row = "" THEN <<>>
    ELSE LET c == SubSeq(row, 1, 1)
         IN  (IF c \in Digits THEN [i \in 1..parseInt(c) |-> "empty"] ELSE <<c>>)
                 \o squaresOfRow(SubSeq(row, 2, Len(row)))

\* the squares of a placement, row by row
gridOf(fen) ==
    LET rows == rowsOf(fen)
    IN  [r \in 1..Len(rows) |-> squaresOfRow(rows[r])]

\* both are boards of 8 x 8 squares, every square (row r, file c) of the first
\* is found with the same piece or emptiness on row 7 - r, file 7 - c of the
\* second, and the pieces of every colour and type are as many in both
keepsPieces(before, after) ==
    LET gb == gridOf(before)
        ga == gridOf(after)
        on(g, x) == Cardinality({sq \in (1..8) \X (1..8) : g[sq[1]][sq[2]] = x})
    IN  /\ Len(gb) = 8 /\ \A r \in 1..8 : Len(gb[r]) = 8
        /\ Len(ga) = 8 /\ \A r \in 1..8 : Len(ga[r]) = 8
        /\ \A r \in 0..7, c \in 0..7 : ga[(7 - r) + 1][(7 - c) + 1] = gb[r + 1][c + 1]
        /\ \A x \in ClaimPieceLetters : on(ga, x) = on(gb, x)

\* C14: rotation keeps every piece: what stands on row r, file c before it
\* stands on row 7 - r, file 7 - c after it, and the pieces of every colour
\* and type are as many as before; for the rotate control and for the
\* rotation detectOrientation applies to a parseable placement.
C14_RotationKeepsPieces ==
    /\ (Len(opLog) > 0 /\ lastOp.op = "rotate")
          => /\ loadOk
             /\ keepsPieces(lastOp.before, chessFen(chess))
    /\ (oriented /\ lastOp.op = "scan" /\ isFlipped /\ parseable(placementOf(apiFen)))
          => keepsPieces(apiFen, orientedFen)

C14_Witness ==
    /\ oriented /\ isFlipped
    /\ placementOf(apiFen) = "RNBKQBNR/PPPPPPPP/8/8/8/8/pppppppp/rnbkqbnr"
    /\ placementOf(orientedFen) = "rnbqkbnr/pppppppp/8/8/8/8/PPPPPPPP/RNBQKBNR"
    /\ Len(opLog) > 0 /\ lastOp.op = "rotate"
    /\ placementOf(lastOp.before) = placementOf(orientedFen)
    /\ placementOf(chessFen(chess)) = placementOf(apiFen)

otherColour(c) == IF c = "w" THEN "b" ELSE "w"

\* C15: rotation, by the control or by detectOrientation, leaves the active
\* colour field as it was; toggleTurn flips that field between w and b and
\* leaves the placement as it was.
C15_OnlyToggleChangesColour ==
    /\ (Len(opLog) > 0 /\ lastOp.op = "rotate")
          => /\ fieldOf(loadArg, 2) = fieldOf(lastOp.before, 2)
             /\ fieldOf(chessFen(chess), 2) = fieldOf(lastOp.before, 2)
    /\ oriented => fieldOf(orientedFen, 2) = fieldOf(apiFen, 2)
    /\ (Len(opLog) > 0 /\ lastOp.op = "toggleTurn")
          => /\ fieldOf(lastOp.before, 2) \in {"w", "b"}
             /\ fieldOf(loadArg, 2) = otherColour(fieldOf(lastOp.before, 2))
             /\ placementOf(loadArg) = placementOf(lastOp.before)
             /\ loadOk
             /\ fieldOf(chessFen(chess), 2) = otherColour(fieldOf(lastOp.before, 2))
             /\ placementOf(chessFen(chess)) = placementOf(lastOp.before)

C15_Witness ==
    /\ oriented /\ isFlipped
    /\ fieldOf(apiFen, 2) = "b"
    /\ Len(opLog) >= 2
    /\ prevOp.op = "rotate" /\ fieldOf(prevOp.before, 2) = "b"
    /\ lastOp.op = "toggleTurn" /\ fieldOf(lastOp.before, 2) = "b"
    /\ fieldOf(chessFen(chess), 2) = "w"


\* r is num / den rounded to the nearest integer, a half upwards
isRounded(r, num, den) == 2 * den * r <= 2 * num + den /\ 2 * num + den < 2 * den * (r + 1)

\* C18: a file at or above the size threshold is drawn at the width
\* min(width, maxWidth): wider than maxWidth it gets the width maxWidth and
\* the height round(height * maxWidth / width), otherwise both stay, and the
\* width of the result is never above maxWidth.
C18_ResizeKeepsAspect ==
    (cpc = "resolved" /\ file.size >= 300000)
        => /\ compressed.width <= maxWidth
           /\ compressed.width = (IF file.width < maxWidth THEN file.width ELSE maxWidth)
           /\ file.width > maxWidth
                 => isRounded(compressed.height, file.height * maxWidth, file.width)
           /\ file.width <= maxWidth => compressed.height = file.height

C18_Witness ==
    /\ cpc = "resolved"
    /\ file = [size |-> 300001, width |-> 1536, height |-> 1000]
    /\ maxWidth = 1024
    /\ compressed = [encoding |-> "image/jpeg", width |-> 1024, height |-> 667]

\* C19: a file below 300000 bytes is returned as it was uploaded, neither
\* resized nor encoded again, however wide its picture is; a file of
\* exactly 300000 bytes takes the resize path.
C19_FastPathBelowThreshold ==
    /\ (cpc = "resolved" /\ file.size < 300000)
          => compressed = [encoding |-> "asUploaded", width |-> file.width,
                           height |-> file.height]
    /\ file.size = 300000
          => /\ cpc # "readingAsIs"
             /\ cpc = "resolved" => compressed.encoding = "image/jpeg"

C19_Witness ==
    /\ cpc = "resolved"
    /\ file.size = 299999
    /\ file.width = 4032 /\ maxWidth = 1024
    /\ compressed.width = 4032
    /\ compressed.encoding = "asUploaded"


\* C16: every pixel removeBleeding returns has r = g = b, a whole number
\* in 0..255, and alpha 255, and the picture returned has the width and
\* the height of the one given.
C16_GrayOpaqueSameSize ==
    \A k \in 1..Len(filtered) :
        LET given == filtered[k].input
            got   == filtered[k].output
        IN  /\ got.width = given.width
            /\ got.height = given.height
            /\ Len(got.data) = 4 * given.width * given.height
            /\ \A j \in 0..(given.width * given.height - 1) :
                  /\ got.data[4 * j + 1] \in 0..255
                  /\ got.data[4 * j + 2] = got.data[4 * j + 1]
                  /\ got.data[4 * j + 3] = got.data[4 * j + 1]
                  /\ got.data[4 * j + 4] = 255

C16_Witness ==
    /\ Len(filtered) >= 1
    /\ filtered[1].input.width = 2 /\ filtered[1].input.height = 2
    /\ SubSeq(filtered[1].input.data, 1, 4) = <<200, 30, 60, 128>>
    /\ filtered[1].output.data[4] = 255
    /\ filtered[1].output.data[1] = filtered[1].output.data[3]

answersOwn(i) ==
    LET e == inv[i].event
        r == inv[i].result
    IN  /\ e.httpMethod # "POST" => r = [statusCode |-> 405, fen |-> none]
        /\ (e.httpMethod = "POST" /\ e.body = "noImage") => r = [statusCode |-> 400, fen |-> none]
        /\ r.statusCode \in {200, 422} => /\ e.httpMethod = "POST" /\ e.body = "image"
                                          /\ inv[i].response.arrived /\ inv[i].response.ok
        /\ r.statusCode = 422 => inv[i].response.fen = none
        /\ r.statusCode = 200 =>
              /\ inv[i].posted = e.image
              /\ inv[i].response.fen = recognized(e.image)
              /\ placementOf(r.fen) = placementOf(recognized(e.image))
              /\ lettersOf(fieldOf(r.fen, 3)) = rightsOf(rowsOf(recognized(e.image)))

\* C20: the handler is reentrant: with invocations interleaved at the
\* awaits, what each one returns is determined by its own event and the
\* recognizer's reply to its own picture, whatever the others do.
C20_HandlerReentrant ==
    \A i \in Invocations : inv[i].pc = "returned" => answersOwn(i)

C20_Witness ==
    /\ inv[1].pc = "returned" /\ inv[2].pc = "returned"
    /\ interleaved = {1, 2}
    /\ inv[1].event.image = "imageB" /\ inv[2].event.image = "imageA"
    /\ inv[1].result = [statusCode |-> 200, fen |-> "8/8/8/8/8/2k5/2P5/2K5 b - - 3 7"]
    /\ inv[2].result = [statusCode |-> 200, fen |-> "r3k2r/8/8/8/8/8/8/R3K2R w KQkq - 0 1"]


\* the fields of a position string but the castling field
otherFields(fen) ==
    LET parts == split(fen, " ")
    IN  [i \in 1..Len(parts) |-> IF i = 3 THEN "" ELSE parts[i]]

\* C21: completion runs before the castling inference and before the
\* orientation heuristic: the string the castling stage works on and the
\* string detectOrientation is given both have at least 6 fields, and the
\* castling stage changes nothing but the castling field of the completed
\* string.
C21_CompletionComesFirst ==
    /\ srvRaw # none => fieldCount(srvCompleted) >= 6
    /\ served => /\ fieldCount(resp.fen) = fieldCount(srvCompleted)
                 /\ otherFields(resp.fen) = otherFields(srvCompleted)
    /\ oriented => /\ served
                   /\ apiFen = resp.fen
                   /\ fieldCount(apiFen) >= 6

C21_Witness ==
    /\ served /\ oriented
    /\ fieldCount(srvRaw) = 1
    /\ fieldCount(srvCompleted) = 6
    /\ fieldCount(apiFen) = 6
    /\ fieldOf(apiFen, 3) = "kq"


\* the gray value of every pixel of a picture and the background the first
\* blur makes of them, in hundredths
grayOf(im) == [j \in 1..(im.width * im.height) |-> luminance(im.data, j - 1)]
backgroundOf(im) == gaussianBlur(filledArray(grayOf(im), im.width * im.height),
                                 im.width, im.height, 25)

\* 0.5 * clamp((gray + 1) / (background + 1) * 255, 0, 255) + 0.5 * gray, in hundredths
clampedThenBlended(gray, bg) ==
    LET n == ((gray + 100) * 25500) \div (bg + 100)
        c == IF n < 0 THEN 0 ELSE IF n > 25500 THEN 25500 ELSE n
    IN  (c + gray) \div 2

\* C24 (as claimed): the normalized value is clamped to [0,255] before the
\* blend: for every pixel the value given to the denoise blur is
\* 0.5 * clamp(normalized, 0, 255) + 0.5 * gray.
C24_ClampBeforeBlend ==
    \A k \in 1..Len(filtered) :
        LET im   == filtered[k].input
            gray == grayOf(im)
            bg   == backgroundOf(im)
        IN  \A j \in 1..(im.width * im.height) :
                blended(gray[j], bg[j]) = clampedThenBlended(gray[j], bg[j])


\* min(max(i, 0), n - 1)
stayingInside(i, n) ==
    CHOOSE c \in 0..(n - 1) : \/ c = i
                              \/ i < 0 /\ c = 0
                              \/ i > n - 1 /\ c = n - 1

\* the reads of both passes of a blur of the given sigma over a picture of
\* the given size: inside the buffer, in the row (the column) of the pixel,
\* at the column (the row) of the tap held at the border
readsStayInside(width, height, sigma) ==
    \A x \in 0..(width - 1), y \in 0..(height - 1), k \in (-(3 * sigma))..(3 * sigma) :
        LET h == horizontalRead(y * width, x, k, width)
            v == verticalRead(x, y, k, width, height)
        IN  /\ h \in 0..(width * height - 1)
            /\ h \div width = y
            /\ h % width = stayingInside(x + k, width)
            /\ v \in 0..(width * height - 1)
            /\ v % width = x
            /\ v \div width = stayingInside(y + k, height)

\* C25: in both blurs of every picture cleaned, for every pixel (x, y) and
\* every tap k in -radius..radius with radius = ceil(3 * sigma), the
\* horizontal pass reads row y at column min(max(x + k, 0), width - 1) and
\* the vertical pass reads column x at row min(max(y + k, 0), height - 1);
\* no read is outside the buffer, in another row, or wrapped around.
C25_BlurReadsStayInside ==
    \A s \in 1..Len(filtered) :
        /\ radiusOf(25) = 75 /\ radiusOf(2) = 6
        /\ readsStayInside(filtered[s].input.width, filtered[s].input.height, 25)
        /\ readsStayInside(filtered[s].input.width, filtered[s].input.height, 2)

C25_Witness ==
    /\ Len(filtered) >= 1
    /\ filtered[1].input.width = 2 /\ filtered[1].input.height = 2
    /\ horizontalRead(2, 1, -75, 2) = 2
    /\ horizontalRead(2, 0, 75, 2) = 3
    /\ verticalRead(1, 0, 6, 2, 2) = 3
    /\ filtered[1].output.width = 2


\* C26: orientation correction is idempotent: for every placement the
\* recognizer can return, missing or repeated kings included,
\* detectOrientation applied to the output of detectOrientation rotates no
\* further and returns its argument.
C26_OrientationIdempotent ==
    oriented => /\ ~detectOrientation(orientedFen).isFlipped
                /\ detectOrientation(orientedFen).fen = orientedFen


\* a step in which loadPosition ran: each of its callers is logged
loadPositionRan == opLog' # opLog

\* C22: when loadPosition is given a position string the rules engine
\* refuses, it reports an invalid-FEN error and the position, moveHistory
\* and currentMoveIndex are the same as before the call.
C22_RefusedLoadChangesNothing ==
    [][(loadPositionRan /\ ~loadOk') =>
          /\ loadReport' = "Invalid FEN"
          /\ chess' = chess /\ chessFen(chess') = chessFen(chess)
          /\ chessHistory' = chessHistory
          /\ moveHistory' = moveHistory
          /\ currentMoveIndex' = currentMoveIndex]_vars

C22_Witness ==
    /\ opLog # <<>> /\ lastOp.op = "scan"
    /\ ~loadOk /\ loadReport = "Invalid FEN" /\ ~validateFen(loadFen)
    /\ lastOp.before = "rnbqkbnr/pppppppp/8/8/8/4P3/PPPP1PPP/RNBQKBNR b KQkq - 0 1"
    /\ chessFen(chess) = lastOp.before
    /\ moveHistory = <<[from |-> "e2", to |-> "e3"]>>
    /\ currentMoveIndex = 0 /\ Len(chessHistory) = 1


\* a step in which onMove ran and the rules engine rejected the move
rejectedMove ==
    steps' = steps + 1 /\ lastStep'.op = "onMove" /\ lastStep'.outcome # "accepted"

\* a step in which onMove ran and the rules engine accepted the move
acceptedMove ==
    steps' = steps + 1 /\ lastStep'.op = "onMove" /\ lastStep'.outcome = "accepted"

undoRan == steps' = steps + 1 /\ lastStep'.op = "undo"
redoRan == steps' = steps + 1 /\ lastStep'.op = "redo"

indexInsideHistory(index, history) == -1 <= index /\ index <= Len(history) - 1

resultDelivered == steps' = steps + 1 /\ lastStep'.op = "result"

\* what is shown of an engine result is of the position given
shownIsOf(display, arrows, fen) ==
    /\ display.of # none => display.of = fen
    /\ arrows # none => arrows = fen

\* C28: a result delivered by the engine callback updates the evaluation
\* display and the move arrows only if the current position equals the
\* position that analysis was started for; a result for another position is
\* dropped without effect, so that what is shown of a result is always of
\* the current position.
C28_LateResultsDropped ==
    [][/\ resultDelivered =>
             IF lastStep'.fen = chessFen(chess)
             THEN /\ evalDisplay' = resultShown(chessFen(chess))
                  /\ currentArrows' \in {currentArrows, chessFen(chess)}
             ELSE UNCHANGED <<evalDisplay, currentArrows>>
       /\ resultDelivered => UNCHANGED <<chess, moveHistory, currentMoveIndex, board>>
       /\ shownIsOf(evalDisplay, currentArrows, chessFen(chess))
       /\ shownIsOf(evalDisplay', currentArrows', chessFen(chess'))]_vars

\* e2-e3 was played, then the result for the start position came in
C28_Witness ==
    /\ opLog = <<>>
    /\ chessFen(chess) = "rnbqkbnr/pppppppp/8/8/8/4P3/PPPP1PPP/RNBQKBNR b KQkq - 0 1"
    /\ lastStep = [op |-> "result", fen |-> DEFAULT_FEN]
    /\ evalDisplay = textShown("...")
    /\ currentArrows = none


\* the timers whose callback would pass the generation check
liveTimers == {t \in timers : t.generation = arrowAnimationGeneration}

\* C29: no timer callback of an animation that was cleared or replaced draws
\* shapes or sets another timer: the shapes on the board are those of the
\* current animation, at most one animation loop is live, and after
\* clearArrows the board has no arrows and no live loop until the next
\* showMoveArrows.
C29_OneLiveAnimation ==
    /\ Cardinality(liveTimers) <= 1
    /\ \A t \in liveTimers : t.handle = arrowAnimationTimeout
    /\ shapes.n > 0 => shapes.by = arrowAnimationGeneration
    /\ currentArrows = none => (shapes = noShapes /\ liveTimers = {})
    /\ currentArrows # none => (shapes.n > 0 /\ Cardinality(liveTimers) = 1)

\* an animation was started, drew its second arrow, and was cleared
C29_Witness ==
    /\ arrowAnimationGeneration = 3
    /\ handles = 2 /\ arrowAnimationTimeout = 2
    /\ currentArrows = none
    /\ shapes = noShapes
    /\ timers = {}

isCommand(given) == given \notin {"uci", "stop"}

\* the commands among what the engine was given
commandsIn(given) == SelectSeq(given, isCommand)

\* the commands the main thread has sent, in its order
commandsSent == [k \in 1..received |-> commandNamed(k)]

C31_StopNeverOvertakes ==
    [][forwarded' = Append(forwarded, "stop") =>
          /\ messageQueue = <<>>
          /\ commandsIn(forwarded) = commandsSent]_workerVars

\* C32: a request whose method is not POST is answered 405 and a POST that
\* carries no image (no body, JSON null, an object without image) is
\* answered 400, both without a call of the recognizer; once the recognizer
\* is called the answer is 422, 500 or 200; and 200 comes only with a
\* position string.
C32_HandlerResponses ==
    [][/\ (pc = "requested" /\ pc' # pc /\ req.httpMethod # "POST") =>
             (pc' = "responded" /\ resp' = [statusCode |-> 405, fen |-> none])
       /\ (pc = "requested" /\ pc' # pc /\ req.httpMethod = "POST"
             /\ req.body \in {"absent", "null", "noImage"}) =>
             (pc' = "responded" /\ resp' = [statusCode |-> 400, fen |-> none])
       /\ (pc = "fetching" /\ pc' = "responded") =>
             /\ resp'.statusCode \in {200, 422, 500}
             /\ req.httpMethod = "POST" /\ req.body = "image"
       /\ resp'.statusCode = 200 => resp'.fen # none]_vars

\* C33: the handler variant that corrects the orientation itself takes the
\* decision of the client's two-tier heuristic: for every position the
\* function has returned to the client, the client's decision (isFlipped)
\* is the decision the variant takes on that position.
C33_ServerDecidesAsClient ==
    apiFen # none => isFlipped = heuristicFlipped(apiFen)

\* the rows of the two kings and twice the king score that the orientation
\* heuristic computes for a position
kingsRead(fen) ==
    LET whiteKingRow == findIndex(rowsOf(fen), "K")
        blackKingRow == findIndex(rowsOf(fen), "k")
    IN  [whiteKingRow |-> whiteKingRow, blackKingRow |-> blackKingRow,
         scoreTimes2 |-> kingScoreTimes2(whiteKingRow, blackKingRow)]

\* the client has run the orientation heuristic on the endgame placement
endgameDetected == apiFen # none /\ placementOf(apiFen) = EndgameRaw

\* C34, as stated: for the placement 8/8/8/8/8/2k5/2P5/2K5 the orientation
\* heuristic finds the White king on row 6 and the Black king on row 5 and
\* computes the score 0.0.
C34_EndgameScoreAsStated ==
    endgameDetected =>
        kingsRead(apiFen) = [whiteKingRow |-> 6, blackKingRow |-> 5, scoreTimes2 |-> 0]

\* C34, amended: for the placement 8/8/8/8/8/2k5/2P5/2K5 the orientation
\* heuristic finds the White king on row 7 and the Black king on row 5 and
\* computes the score (3.5 - 7) + (5 - 3.5) = -2.0, which is not above 1.5:
\* the king tier decides and the board is not rotated.
C34_EndgameScore ==
    endgameDetected =>
        /\ kingsRead(apiFen) = [whiteKingRow |-> 7, blackKingRow |-> 5, scoreTimes2 |-> -4]
        /\ tier = "kings" /\ ~isFlipped
        /\ orientedFen = apiFen

\* the endgame placement came back from the function and was loaded as it is
C34_Witness ==
    /\ pc = "done" /\ caller = "app"
    /\ apiFen = EndgameFinal
    /\ tier = "kings" /\ ~isFlipped
    /\ loadOk /\ chessFen(chess) = EndgameFinal

====
